---- MODULE Spec2Model ----
(***************************************************************************)
(* Model of the Spinecat matching engines:                                  *)
(*   AdvancedBookMatcher (permanent_pipeline/src/core/matching_v2.py)       *)
(*   BookMatcher         (permanent_pipeline/src/core/matching.py)          *)
(*                                                                          *)
(* Text is a sequence of one-character strings.  A code point outside       *)
(* ASCII is written by its name ("e_acute").  Similarities are integers in  *)
(* thousandths (0..1000 for [0,1]); final scores are integers in units of   *)
(* 10^-7, so the weighted sums and the 0.8 / 0.7 penalties are exact.       *)
(***************************************************************************)
EXTENDS Integers, Sequences, FiniteSets, TLC

(***************************************************************************)
(* Characters                                                               *)
(***************************************************************************)
UpperAZ == <<"A","B","C","D","E","F","G","H","I","J","K","L","M",
             "N","O","P","Q","R","S","T","U","V","W","X","Y","Z">>

LowerAZ == <<"a","b","c","d","e","f","g","h","i","j","k","l","m",
             "n","o","p","q","r","s","t","u","v","w","x","y","z">>

Digit09 == <<"0","1","2","3","4","5","6","7","8","9">>

Range(s) == {s[i] : i \in 1..Len(s)}

IndexOf(s, c) == CHOOSE i \in 1..Len(s) : s[i] = c

\* Python's str.isspace() on the characters of the model
IsSpace(c) == c \in {" ", "\t"}

\* str.upper() of one character
UpperChar(c) ==
    IF c \in Range(LowerAZ) THEN UpperAZ[IndexOf(LowerAZ, c)]
    ELSE IF c = "e_acute" THEN "E_acute"
    ELSE c

\* str.lower() of one character
LowerChar(c) ==
    IF c \in Range(UpperAZ) THEN LowerAZ[IndexOf(UpperAZ, c)]
    ELSE IF c = "E_acute" THEN "e_acute"
    ELSE c

\* unicodedata.normalize("NFKD", c) with the combining marks dropped
StripAccent(c) ==
    IF c = "E_acute" THEN "E"
    ELSE IF c = "e_acute" THEN "e"
    ELSE c

\* the regular expression class \w (letters, digits, underscore; Unicode aware)
IsWordChar(c) ==
    c \in Range(UpperAZ) \cup Range(LowerAZ) \cup Range(Digit09)
          \cup {"_", "e_acute", "E_acute"}

(***************************************************************************)
(* Strings                                                                  *)
(***************************************************************************)
MapChars(s, F(_)) == [i \in 1..Len(s) |-> F(s[i])]

\* str.split() with no argument: the maximal runs of non-whitespace
Split(s) ==
    LET RECURSIVE SplitFrom(_, _, _)
        SplitFrom(i, cur, acc) ==
            IF i > Len(s)
            THEN IF cur = <<>> THEN acc ELSE Append(acc, cur)
            ELSE IF IsSpace(s[i])
                 THEN SplitFrom(i + 1, <<>>, IF cur = <<>> THEN acc ELSE Append(acc, cur))
                 ELSE SplitFrom(i + 1, Append(cur, s[i]), acc)
    IN  SplitFrom(1, <<>>, <<>>)

\* sep.join(toks)
Join(toks, sep) ==
    LET RECURSIVE JoinFrom(_)
        JoinFrom(i) ==
            IF i > Len(toks) THEN <<>>
            ELSE IF i = Len(toks) THEN toks[i]
            ELSE toks[i] \o sep \o JoinFrom(i + 1)
    IN  JoinFrom(1)

\* str.strip()
Strip(s) ==
    LET first == {i \in 1..Len(s) : ~IsSpace(s[i])}
    IN  IF first = {} THEN <<>>
        ELSE SubSeq(s, CHOOSE i \in first : \A j \in first : i <= j,
                       CHOOSE i \in first : \A j \in first : i >= j)

RECURSIVE ReplaceChar(_, _, _)
\* str.replace(old, new) for a one-character old and a string new
ReplaceChar(s, old, new) ==
    IF s = <<>> THEN <<>>
    ELSE (IF Head(s) = old THEN new ELSE <<Head(s)>>) \o ReplaceChar(Tail(s), old, new)

RECURSIVE CollapseSpace(_, _)
\* re.sub(r"\s+", " ", s): every run of whitespace becomes one blank
CollapseSpace(s, inRun) ==
    IF s = <<>> THEN <<>>
    ELSE IF IsSpace(Head(s))
         THEN (IF inRun THEN <<>> ELSE <<" ">>) \o CollapseSpace(Tail(s), TRUE)
         ELSE <<Head(s)>> \o CollapseSpace(Tail(s), FALSE)

Lower(s) == MapChars(s, LowerChar)
Upper(s) == MapChars(s, UpperChar)

\* "sub in s" for strings
IsSubstring(sub, s) ==
    \E i \in 0..(Len(s) - Len(sub)) : SubSeq(s, i + 1, i + Len(sub)) = sub

RECURSIVE SeqLess(_, _)
\* s < t in the lexicographic order of the code points (used by sorted())
SeqLess(s, t) ==
    IF t = <<>> THEN FALSE
    ELSE IF s = <<>> THEN TRUE
    ELSE LET Ord(c) == IF c \in Range(Digit09) THEN IndexOf(Digit09, c)
                       ELSE IF c \in Range(UpperAZ) THEN 20 + IndexOf(UpperAZ, c)
                       ELSE IF c \in Range(LowerAZ) THEN 60 + IndexOf(LowerAZ, c)
                       ELSE IF c = " " THEN 0
                       ELSE 100
         IN  IF Ord(Head(s)) # Ord(Head(t)) THEN Ord(Head(s)) < Ord(Head(t))
             ELSE SeqLess(Tail(s), Tail(t))

Max2(a, b) == IF a >= b THEN a ELSE b
Min2(a, b) == IF a <= b THEN a ELSE b

\* max() of a non-empty sequence of numbers
MaxOf(xs) == CHOOSE m \in Range(xs) : \A x \in Range(xs) : x <= m

(***************************************************************************)
(* Text Normalizer                                                          *)
(***************************************************************************)
\* normalize_text without the final strip()
normalize_text_unstripped(text) ==
    IF text = <<>> THEN <<>>
    ELSE LET s1 == MapChars(Upper(text), StripAccent)
             s2 == ReplaceChar(s1, "&", <<" ", "A", "N", "D", " ">>)
             s3 == ReplaceChar(ReplaceChar(s2, "endash", <<"-">>), "emdash", <<"-">>)
             Keep(c) == IF c \in Range(UpperAZ) \cup Range(Digit09) \cup {" "}
                        THEN c ELSE " "
         IN  CollapseSpace(MapChars(s3, Keep), FALSE)

\* AdvancedBookMatcher.normalize_text
normalize_text(text) ==
    IF text = <<>> THEN <<>>
    ELSE LET s1 == MapChars(Upper(text), StripAccent)
             s2 == ReplaceChar(s1, "&", <<" ", "A", "N", "D", " ">>)
             s3 == ReplaceChar(ReplaceChar(s2, "endash", <<"-">>), "emdash", <<"-">>)
             Keep(c) == IF c \in Range(UpperAZ) \cup Range(Digit09) \cup {" "}
                        THEN c ELSE " "
             s4 == MapChars(s3, Keep)
         IN  Strip(CollapseSpace(s4, FALSE))

\* BookMatcher._normalize_text
_normalize_text(text) ==
    IF text = <<>> THEN <<>>
    ELSE LET s1 == Lower(text)
             Punct(c) == IF IsWordChar(c) \/ IsSpace(c) THEN c ELSE " "
             s2 == CollapseSpace(MapChars(s1, Punct), FALSE)
             Ocr(c) == CASE c = "0" -> "o" [] c = "1" -> "l" [] c = "5" -> "s"
                         [] c = "8" -> "b" [] c = "6" -> "g" [] OTHER -> c
         IN  Strip(MapChars(s2, Ocr))

(***************************************************************************)
(* Third-party similarity measures (rapidfuzz), in thousandths.            *)
(* Each is computed as the library computes it; a quotient is rounded down *)
(* to the next thousandth.                                                  *)
(***************************************************************************)
\* length of the longest common subsequence (dynamic programme, row by row)
LCSLen(s, t) ==
    LET RECURSIVE BuildRow(_, _, _, _)
        BuildRow(prev, c, j, cur) ==
            IF j > Len(t) THEN cur
            ELSE LET v == IF c = t[j] THEN prev[j] + 1 ELSE Max2(prev[j + 1], cur[j])
                     nxt == Append(cur, v)
                 IN  IF Len(nxt) > 0 THEN BuildRow(prev, c, j + 1, nxt) ELSE nxt
        RECURSIVE LCSRows(_, _)
        LCSRows(i, prev) ==
            IF i > Len(s) THEN prev[Len(t) + 1]
            ELSE LET row == BuildRow(prev, s[i], 1, <<0>>)
                 IN  IF Len(row) > 0 THEN LCSRows(i + 1, row) ELSE 0
    IN  LCSRows(1, [j \in 1..(Len(t) + 1) |-> 0])

\* rapidfuzz Indel distance: insertions and deletions only
IndelDistance(s, t) == Len(s) + Len(t) - 2 * LCSLen(s, t)

\* rapidfuzz _norm_distance(dist, lensum), as a similarity in thousandths
NormDistance(dist, lensum) ==
    IF lensum = 0 THEN 1000 ELSE 1000 - ((1000 * dist + lensum - 1) \div lensum)

\* fuzz.ratio(s, t) / 100.0
fuzz_ratio(s, t) == NormDistance(IndelDistance(s, t), Len(s) + Len(t))

\* list(dict.fromkeys(toks)): first occurrences, in order
Dedup(toks) ==
    LET RECURSIVE DedupFrom(_, _)
        DedupFrom(i, acc) ==
            IF i > Len(toks) THEN acc
            ELSE DedupFrom(i + 1, IF toks[i] \in Range(acc) THEN acc
                                  ELSE Append(acc, toks[i]))
    IN  DedupFrom(1, <<>>)

\* " ".join(sorted(toks))
JoinSorted(toks) ==
    LET RECURSIVE InsertSorted(_, _)
        InsertSorted(sorted, tok) ==
            IF sorted = <<>> THEN <<tok>>
            ELSE IF SeqLess(tok, Head(sorted)) THEN <<tok>> \o sorted
            ELSE <<Head(sorted)>> \o InsertSorted(Tail(sorted), tok)
        RECURSIVE SortTokensFrom(_, _)
        SortTokensFrom(i, acc) ==
            IF i > Len(toks) THEN acc
            ELSE SortTokensFrom(i + 1, InsertSorted(acc, toks[i]))
    IN  Join(SortTokensFrom(1, <<>>), <<" ">>)

\* fuzz.token_sort_ratio(s, t) / 100.0
token_sort_ratio(s, t) ==
    fuzz_ratio(JoinSorted(Split(s)), JoinSorted(Split(t)))

\* fuzz.token_set_ratio(s, t) / 100.0
token_set_ratio(s, t) ==
    LET ta == Dedup(Split(s))
        tb == Dedup(Split(t))
        InB(x) == x \in Range(tb)
        InA(x) == x \in Range(ta)
        NotInB(x) == x \notin Range(tb)
        NotInA(x) == x \notin Range(ta)
        sect == SelectSeq(ta, InB)
        diff_ab == JoinSorted(SelectSeq(ta, NotInB))
        diff_ba == JoinSorted(SelectSeq(tb, NotInA))
        ab_len == Len(diff_ab)
        ba_len == Len(diff_ba)
        sect_len == Len(Join(sect, <<" ">>))
        sep == IF sect_len # 0 THEN 1 ELSE 0
        sect_ab_len == sect_len + sep + ab_len
        sect_ba_len == sect_len + sep + ba_len
        result == NormDistance(IndelDistance(diff_ab, diff_ba),
                               sect_ab_len + sect_ba_len)
        sect_ab_ratio == NormDistance(sep + ab_len, sect_len + sect_ab_len)
        sect_ba_ratio == NormDistance(sep + ba_len, sect_len + sect_ba_len)
    IN  IF s = <<>> \/ t = <<>> \/ ta = <<>> \/ tb = <<>> THEN 0
        ELSE IF sect # <<>> /\ (ab_len = 0 \/ ba_len = 0) THEN 1000
        ELSE IF sect_len = 0 THEN result
        ELSE Max2(result, Max2(sect_ab_ratio, sect_ba_ratio))

\* fuzz.partial_ratio(s, t) / 100.0: the best ratio of the shorter string with
\* a window of the longer one
partial_ratio(s, t) ==
    LET Windows(n, long) ==
            {SubSeq(long, 1, k) : k \in 1..Min2(n - 1, Len(long))}
            \cup {SubSeq(long, i + 1, i + n) : i \in 0..(Len(long) - n)}
            \cup {SubSeq(long, i + 1, Len(long)) :
                    i \in Max2(Len(long) - n + 1, 0)..(Len(long) - 1)}
        Scores(short, long) == {fuzz_ratio(short, w) : w \in Windows(Len(short), long)}
        PartialImpl(short, long) ==
            CHOOSE m \in Scores(short, long) : \A v \in Scores(short, long) : v <= m
    IN  IF s = <<>> /\ t = <<>> THEN 1000
        ELSE IF s = <<>> \/ t = <<>> THEN 0
        ELSE IF Len(s) < Len(t) THEN PartialImpl(s, t)
        ELSE IF Len(t) < Len(s) THEN PartialImpl(t, s)
        ELSE Max2(PartialImpl(s, t), PartialImpl(t, s))

\* fuzz.partial_token_ratio(s, t) / 100.0
partial_token_ratio(s, t) ==
    LET ta == Dedup(Split(s))
        tb == Dedup(Split(t))
    IN  IF Range(ta) \cap Range(tb) # {} THEN 1000
        ELSE partial_ratio(JoinSorted(ta), JoinSorted(tb))

\* fuzz.WRatio(s, t) / 100.0
WRatio(s, t) ==
    IF s = <<>> \/ t = <<>> THEN 0
    ELSE LET lmax == Max2(Len(s), Len(t))
             lmin == Min2(Len(s), Len(t))
             base == fuzz_ratio(s, t)
             token_ratio == Max2(token_sort_ratio(s, t), token_set_ratio(s, t))
             partial_scale == IF lmax <= 8 * lmin THEN 90 ELSE 60
             with_partial == Max2(base, (partial_ratio(s, t) * partial_scale) \div 100)
         IN  IF 2 * lmax < 3 * lmin
             THEN Max2(base, (token_ratio * 95) \div 100)
             ELSE Max2(with_partial,
                       (partial_token_ratio(s, t) * 95 * partial_scale) \div 10000)

\* Jaro similarity in thousandths; JaroMatch is the greedy matching:
\* <<matched characters of s, matched positions of t>>
Jaro(s, t) ==
    LET RECURSIVE JaroMatch(_, _, _)
        JaroMatch(i, used, ms) ==
            IF i > Len(s) THEN <<ms, used>>
            ELSE LET win == Max2((Max2(Len(s), Len(t)) \div 2) - 1, 0)
                     cand == {j \in Max2(1, i - win)..Min2(Len(t), i + win) :
                                j \notin used /\ t[j] = s[i]}
                     j0 == CHOOSE j \in cand : \A k \in cand : j <= k
                     used2 == IF cand = {} THEN used ELSE used \cup {j0}
                     ms2 == IF cand = {} THEN ms ELSE Append(ms, s[i])
                 IN  IF Cardinality(used2) >= 0 /\ Len(ms2) >= 0
                     THEN JaroMatch(i + 1, used2, ms2) ELSE <<ms, used>>
        r == JaroMatch(1, {}, <<>>)
        ms == r[1]
        mt == [k \in 1..Len(ms) |->
                 t[CHOOSE j \in r[2] : Cardinality({u \in r[2] : u < j}) = k - 1]]
        m == Len(ms)
        half == Cardinality({k \in 1..m : ms[k] # mt[k]}) \div 2
    IN  IF s = <<>> /\ t = <<>> THEN 1000
        ELSE IF s = <<>> \/ t = <<>> THEN 0
        ELSE IF m = 0 THEN 0
        ELSE (1000 * (m * Len(t) * m + m * Len(s) * m + (m - half) * Len(s) * Len(t)))
                \div (3 * Len(s) * Len(t) * m)

\* JaroWinkler.normalized_similarity(s, t): prefix weight 0.1 on a common prefix
\* of at most 4 characters, applied above 0.7
JaroWinkler(s, t) ==
    LET j == Jaro(s, t)
        ks == {k \in 0..Min2(4, Min2(Len(s), Len(t))) : SubSeq(s, 1, k) = SubSeq(t, 1, k)}
        prefix == CHOOSE k \in ks : \A i \in ks : i <= k
    IN  IF j > 700 THEN j + (prefix * (1000 - j)) \div 10 ELSE j

(***************************************************************************)
(* Catalog records (loosely typed mappings in the source).                 *)
(*   author_kind: "missing" (no 'author_name' key), "none" (null),         *)
(*                "str" (authors[1] is the string), "list"                 *)
(*   publisher:   the empty string stands for an absent publisher          *)
(***************************************************************************)
MkBook(key, title, author_kind, authors, publisher) ==
    [key |-> key, title |-> title, author_kind |-> author_kind,
     authors |-> authors, publisher |-> publisher]

\* the text of book.get('author_name', '') once a list has been joined;
\* for a null author this is the text that str(None) formats to
AuthorText(book) ==
    CASE book.author_kind = "list" -> Join(book.authors, <<" ">>)
      [] book.author_kind = "str" -> book.authors[1]
      [] book.author_kind = "none" -> <<"N", "o", "n", "e">>
      [] OTHER -> <<>>

\* the author as the methods taking it see it: null and '' are both falsy
AuthorOrEmpty(book) == IF book.author_kind = "none" THEN <<>> ELSE AuthorText(book)

(***************************************************************************)
(* AdvancedBookMatcher: constants of __init__                               *)
(***************************************************************************)
STOP_LOW ==
    { <<"T","H","E">>, <<"A">>, <<"A","N">>, <<"O","F">>, <<"A","N","D">>,
      <<"P","R","E","S","S">>, <<"P","U","B","L","I","S","H","I","N","G">>,
      <<"B","O","O","K","S">>, <<"I","N","C">>, <<"L","T","D">>, <<"C","O">>,
      <<"C","O","R","P">>, <<"C","O","M","P","A","N","Y">> }

\* OCR_CONFUSIONS in the insertion order of the dictionary
OCR_CONFUSIONS ==
    << <<"I", <<"L", "1">>>>, <<"L", <<"I", "1">>>>, <<"1", <<"I", "L">>>>,
       <<"0", <<"O">>>>, <<"O", <<"0">>>>, <<"5", <<"S">>>>, <<"S", <<"5">>>>,
       <<"8", <<"B">>>>, <<"B", <<"8">>>>, <<"6", <<"G">>>>, <<"G", <<"6">>>>,
       <<"Z", <<"2">>>>, <<"2", <<"Z">>>> >>

RECURSIVE ConfusionsFrom(_, _, _, _)
ConfusionsFrom(text, i, j, acc) ==
    IF i > Len(OCR_CONFUSIONS) THEN acc
    ELSE LET original == OCR_CONFUSIONS[i][1]
             confusions == OCR_CONFUSIONS[i][2]
         IN  IF original \notin Range(text) \/ j > Len(confusions)
             THEN ConfusionsFrom(text, i + 1, 1, acc)
             ELSE LET variant == ReplaceChar(text, original, <<confusions[j]>>)
                  IN  ConfusionsFrom(text, i, j + 1,
                         IF variant # text THEN Append(acc, variant) ELSE acc)

\* generate_confusion_variants applying each substitution to the text that the
\* substitutions before it have produced
generate_confusion_variants_cumulative(text) ==
    LET RECURSIVE Cumulative(_, _, _, _)
        Cumulative(current, i, j, acc) ==
            IF i > Len(OCR_CONFUSIONS) THEN acc
            ELSE LET original == OCR_CONFUSIONS[i][1]
                     confusions == OCR_CONFUSIONS[i][2]
                 IN  IF original \notin Range(current) \/ j > Len(confusions)
                     THEN Cumulative(current, i + 1, 1, acc)
                     ELSE LET variant == ReplaceChar(current, original, <<confusions[j]>>)
                          IN  Cumulative(variant, i, j + 1, Append(acc, variant))
    IN  Dedup(Cumulative(text, 1, 1, <<text>>))

\* AdvancedBookMatcher.generate_confusion_variants
generate_confusion_variants(text) == Dedup(ConfusionsFrom(text, 1, 1, <<text>>))

\* AdvancedBookMatcher.extract_tokens
extract_tokens(text) ==
    LET Long(t) == Len(t) > 1 IN SelectSeq(Split(text), Long)

\* AdvancedBookMatcher.extract_author_last_name
extract_author_last_name(author) ==
    IF author = <<>> THEN <<>>
    ELSE LET parts == Split(author)
         IN  IF parts = <<>> THEN <<>> ELSE parts[Len(parts)]

\* one entry of the meta list of AdvancedBookMatcher.build_corpus
MetaEntry(book) ==
    LET title == Strip(book.title)
        base == Strip(title \o <<" ">> \o AuthorText(book))
        normalized == normalize_text(base)
    IN  [original_book |-> book,
         norm |-> normalized,
         tokens |-> extract_tokens(normalized),
         title_norm |-> normalize_text(title),
         author_norm |-> normalize_text(AuthorOrEmpty(book)),
         author_last |-> extract_author_last_name(AuthorOrEmpty(book))]


(***************************************************************************)
(* scikit-learn TfidfVectorizer, as fit() and the features use it           *)
(***************************************************************************)
\* the character n-grams (n = 3..5) of a document, after lower-casing
CharNgrams(doc) ==
    {SubSeq(Lower(doc), p[1], p[1] + p[2] - 1) :
        p \in {<<i, n>> \in (1..Len(doc)) \X (3..5) : i + n - 1 <= Len(doc)}}

\* the word tokens of the default token pattern: two or more word characters
WordTokens(doc) ==
    LET Long(t) == Len(t) > 1 IN SelectSeq(Split(Lower(doc)), Long)

\* number of documents that contain the term
DocFreq(term, termSets) == Cardinality({i \in 1..Len(termSets) : term \in termSets[i]})

\* the vocabulary kept by min_df = 2
PrunedVocabulary(termSets) ==
    {g \in UNION Range(termSets) : DocFreq(g, termSets) >= 2}

\* fit_transform raises ValueError: empty vocabulary, fewer documents than
\* min_df, or no term left after pruning
VectorizerRaises(termSets) ==
    \/ UNION Range(termSets) = {}
    \/ Len(termSets) < 2
    \/ PrunedVocabulary(termSets) = {}

\* TfidfVectorizer.idf_ (smooth_idf): floor(1000 * (ln((1 + n) / (1 + df)) + 1))
SmoothIdf(n, df) ==
    LET IdfTable ==
        << <<1000,    0,    0,    0,    0,    0,    0,    0,    0>>,
        <<1405, 1000,    0,    0,    0,    0,    0,    0,    0>>,
        <<1693, 1287, 1000,    0,    0,    0,    0,    0,    0>>,
        <<1916, 1510, 1223, 1000,    0,    0,    0,    0,    0>>,
        <<2098, 1693, 1405, 1182, 1000,    0,    0,    0,    0>>,
        <<2252, 1847, 1559, 1336, 1154, 1000,    0,    0,    0>>,
        <<2386, 1980, 1693, 1470, 1287, 1133, 1000,    0,    0>>,
        <<2504, 2098, 1810, 1587, 1405, 1251, 1117, 1000,    0>>,
        <<2609, 2203, 1916, 1693, 1510, 1356, 1223, 1105, 1000>> >>
    IN  IdfTable[n][df]

\* the token -> IDF map fit() builds from the word vectorizer (lines 196-203)
TokenIdfOf(corpus) ==
    LET termSets == [i \in 1..Len(corpus) |-> Range(WordTokens(corpus[i]))]
        vocabulary == PrunedVocabulary(termSets)
        keys == {Upper(token) : token \in vocabulary}
    IN  [token_upper \in keys |->
            LET idf_value == SmoothIdf(Len(corpus), DocFreq(Lower(token_upper), termSets))
            IN  IF token_upper \in STOP_LOW THEN idf_value \div 10 ELSE idf_value]

RECURSIVE SumFn(_)
\* sum of the values of a function with a finite domain
SumFn(f) ==
    IF DOMAIN f = {} THEN 0
    ELSE LET e == CHOOSE e \in DOMAIN f : TRUE
         IN  f[e] + SumFn([y \in DOMAIN f \ {e} |-> f[y]])

\* floor of the square root of n, for 0 <= n <= 10000
ISqrt(n) == CHOOSE r \in 0..100 : r * r <= n /\ (r = 100 \/ (r + 1) * (r + 1) > n)

\* cosine_similarity(transform([a]), transform([b])) over the fitted vocabulary,
\* in thousandths (computed to the hundredth).  The term weights are the term
\* counts; the idf factor of the library is left out, which keeps the range
\* [0,1], the value 0 for no shared term and the value 1 for equal vectors.
CharCosine(vocab, a, b) ==
    LET NgramCount(g, ldoc) ==
            Cardinality({i \in 1..(Len(ldoc) - Len(g) + 1) :
                            SubSeq(ldoc, i, i + Len(g) - 1) = g})
        ca == [g \in vocab |-> NgramCount(g, Lower(a))]
        cb == [g \in vocab |-> NgramCount(g, Lower(b))]
        dot == SumFn([g \in vocab |-> ca[g] * cb[g]])
        na == SumFn([g \in vocab |-> ca[g] * ca[g]])
        nb == SumFn([g \in vocab |-> cb[g] * cb[g]])
    IN  IF dot = 0 THEN 0
        ELSE 10 * ISqrt((10000 * dot * dot) \div (na * nb))

\* 1.0 in the unit of the final scores
ScoreOne == 1000 * 10000

(***************************************************************************)
(* The inputs the operations are called with                                *)
(***************************************************************************)
BookA == MkBook("a", <<"T", "h", "e", " ", "S", "o", "l">>, "list", <<<<"A", "l", " ", "P", "o", "e">>>>, <<>>)
BookB == MkBook("b", <<"t", "h", "e", " ", "s", "o", "l", "!">>, "list", <<<<"A", "l", " ", "P", "o", "e">>>>, <<>>)
BookC == MkBook("c", <<"T", "h", "e", " ", "B", "o", "g">>, "str", <<<<"l", "i">>>>, <<>>)
BookD == MkBook("d", <<"Z", "z", "z">>, "missing", <<>>, <<>>)
BookE == MkBook("e", <<"S", "o", "l", "o">>, "none", <<>>, <<>>)
\* a record whose author's last name starts with a letter of OCR_CONFUSIONS
BookG == MkBook("g", <<"T", "h", "e", " ", "B", "o", "g">>, "str", <<<<"A", "l", " ", "S", "o", "l">>>>, <<>>)

Catalogs ==
    { <<>>, <<BookA>>, <<BookC, BookB, BookA>>, <<BookA, BookD>>, <<BookA, BookE>>,
      <<BookD, BookC, BookA>>, <<BookC, BookG>> }

Books == UNION {Range(c) : c \in Catalogs}

Queries == { <<>>, <<" ", "\t">>, <<"T", "h", "e", " ", "5", "o", "l">>, <<"B", "o", "g", " ", "l", "i">>, <<"Q", "q", "q">>, <<"T", "h", "e", " ", "S", "o", "l", " ", "A", "l", " ", "P", "o", "e">>,
             <<"S", "o", "l", " ", "&", " ", "S", "o", "l">>,
             <<"T", "h", "e", " ", "8", "o", "g", " ", "A", "l", " ", "5", "o", "l">>,
             <<"Z", "z", "z">> }

\* largest top_k a call is made with (the smallest is -1)
MaxTopK == 2

TopKs == (-1)..MaxTopK

\* the scores the classifiers are applied to: a grid over [-0.2, 1.2] in steps
\* of 0.05 (it holds the four thresholds) and the values just below them
MatchTypeScores ==
    {k * (ScoreOne \div 20) : k \in (-4)..24} \cup {8499999, 6999999, 5499999, 3999999}

\* confidence thresholds: 0.0 and 0.65
Thresholds == {0, 6500000}

(***************************************************************************)
(* The library measures over the texts of the inputs, each computed once    *)
(***************************************************************************)
\* the meta entry of each book of the inputs
MetaTable == [b \in Books |-> MetaEntry(b)]

\* AdvancedBookMatcher.build_corpus: the meta list (corpus[i] is meta[i].norm)
build_corpus(catalog) == [i \in 1..Len(catalog) |-> MetaTable[catalog[i]]]

CandidateMetas == {MetaTable[b] : b \in Books}

\* normalize_text and generate_confusion_variants of each query of the inputs:
\* the variants list, whose first element is the normalized query
VariantsTable == [q \in Queries |-> generate_confusion_variants(normalize_text(q))]

QueryVariants == UNION {Range(VariantsTable[q]) : q \in Queries}

FittedVocabularies ==
    LET Grams(c) == [i \in 1..Len(c) |-> CharNgrams(MetaTable[c[i]].norm)]
    IN  {PrunedVocabulary(Grams(c)) : c \in Catalogs} \cup {{}}

\* self.vectorizer: None, assigned but not fitted, or fitted with a vocabulary
NoVectorizer == [state |-> "none", vocab |-> {}]
UnfittedVectorizer == [state |-> "unfitted", vocab |-> {}]

Vectorizers ==
    {NoVectorizer} \cup {[state |-> "fitted", vocab |-> v] : v \in FittedVocabularies}

\* the values self.token_idf takes: {} and the maps fit() builds
TokenIdfs ==
    LET Corpus(c) == [i \in 1..Len(c) |-> MetaTable[c[i]].norm]
        Terms(c) == [i \in 1..Len(c) |-> Range(WordTokens(Corpus(c)[i]))]
    IN  {<<>>} \cup {TokenIdfOf(Corpus(c)) : c \in {d \in Catalogs : ~VectorizerRaises(Terms(d))}}

\* what fit computes from each catalog of the inputs: the corpus, whether
\* fit_transform of each vectorizer raises, and what the vectorizers learn
FitTable ==
    [c \in Catalogs |->
        LET corpus == [i \in 1..Len(c) |-> MetaTable[c[i]].norm]
            grams == [i \in 1..Len(c) |-> CharNgrams(corpus[i])]
            words == [i \in 1..Len(c) |-> Range(WordTokens(corpus[i]))]
        IN  [corpus |-> corpus,
             char_raises |-> VectorizerRaises(grams),
             vocab |-> IF VectorizerRaises(grams) THEN {} ELSE PrunedVocabulary(grams),
             token_raises |-> VectorizerRaises(words),
             token_idf |-> IF VectorizerRaises(words) THEN <<>> ELSE TokenIdfOf(corpus)]]

\* the values of the constructor argument use_character_ngrams (pipeline.py:73)
UseCharacterNgrams == {TRUE}

JaroWinklerTable ==
    [p \in {<<a, b>> : a \in UNION {Range(extract_tokens(v)) : v \in QueryVariants},
                      b \in UNION {Range(e.tokens) \cup {e.author_last} :
                                      e \in CandidateMetas}} |->
        JaroWinkler(p[1], p[2])]

TokenSetRatioTable ==
    [p \in {<<a, b>> : a \in QueryVariants, b \in {e.norm : e \in CandidateMetas}} |->
        token_set_ratio(p[1], p[2])]

CharCosineTable ==
    [p \in {<<v, a, b>> : v \in FittedVocabularies, a \in QueryVariants,
                        b \in {e.norm : e \in CandidateMetas}} |->
        CharCosine(p[1], p[2], p[3])]

(***************************************************************************)
(* AdvancedBookMatcher: features, combination, classification              *)
(* A matcher value m is the record of the instance's fields.               *)
(***************************************************************************)
\* dict.get(token, default) on token_idf
IdfGet(token_idf, t, default) == IF t \in DOMAIN token_idf THEN token_idf[t] ELSE default

\* if similarity > best_similarity: best_similarity, best_candidate = ...
BetterCandidate(best, similarity, candidate_token) ==
    IF similarity > best[1] THEN <<similarity, candidate_token>> ELSE best

RECURSIVE BestCandidateFrom(_, _, _, _, _)
\* the inner loop of soft_tfidf_overlap: <<best_similarity, best_candidate>>,
\* best_candidate <<>> standing for None
BestCandidateFrom(query_token, candidate_tokens, used, j, best) ==
    IF j > Len(candidate_tokens) THEN best
    ELSE BestCandidateFrom(query_token, candidate_tokens, used, j + 1,
            IF candidate_tokens[j] \in used THEN best
            ELSE BetterCandidate(best,
                    JaroWinklerTable[<<query_token, candidate_tokens[j]>>],
                    candidate_tokens[j]))

\* if best_candidate and best_similarity >= 0.88
GoodCandidate(best) == best[1] >= 880 /\ best[2] # <<>>

RECURSIVE SoftLoop(_, _, _, _, _, _)
RECURSIVE SoftStep(_, _, _, _, _, _, _)
\* the outer loop never adding the credited candidate token to used
SoftStepReusing(token_idf, query_tokens, candidate_tokens, i, used, gained_idf, best) ==
    SoftLoop(token_idf, query_tokens, candidate_tokens, i + 1, used,
             IF GoodCandidate(best)
             THEN gained_idf + IdfGet(token_idf, query_tokens[i], 1000)
             ELSE gained_idf)

\* the outer loop of soft_tfidf_overlap from query token i on: gained_idf
SoftLoop(token_idf, query_tokens, candidate_tokens, i, used, gained_idf) ==
    IF i > Len(query_tokens) THEN gained_idf
    ELSE SoftStep(token_idf, query_tokens, candidate_tokens, i, used, gained_idf,
                  BestCandidateFrom(query_tokens[i], candidate_tokens, used, 1,
                                    <<0, <<>>>>))

\* the rest of one pass of the outer loop, best being the inner loop's result
SoftStep(token_idf, query_tokens, candidate_tokens, i, used, gained_idf, best) ==
    SoftLoop(token_idf, query_tokens, candidate_tokens, i + 1,
             IF GoodCandidate(best) THEN used \cup {best[2]} ELSE used,
             IF GoodCandidate(best)
             THEN gained_idf + IdfGet(token_idf, query_tokens[i], 1000)
             ELSE gained_idf)

\* AdvancedBookMatcher.soft_tfidf_overlap
soft_tfidf_overlap(token_idf, query_tokens, candidate_tokens) ==
    LET total_idf == SumFn([i \in 1..Len(query_tokens) |->
                              IdfGet(token_idf, query_tokens[i], 1000)])
    IN  IF query_tokens = <<>> \/ candidate_tokens = <<>> THEN 0
        ELSE IF total_idf = 0 THEN 0
        ELSE (1000 * SoftLoop(token_idf, query_tokens, candidate_tokens, 1, {}, 0))
                \div total_idf

\* feature 4 of calculate_match_features
AuthorLastnameSim(query_tokens, author_last) ==
    LET sims == {JaroWinklerTable[<<query_tokens[i], author_last>>] :
                   i \in {k \in 1..Len(query_tokens) : Len(query_tokens[k]) > 2}}
    IN  IF author_last = <<>> \/ sims = {} THEN 0
        ELSE CHOOSE v \in sims : \A w \in sims : w <= v

\* feature 5 of calculate_match_features
DistinctiveTokenCoverage(token_idf, query_tokens, candidate_tokens) ==
    LET High(t) == IdfGet(token_idf, t, 0) > 2000
        high_idf_tokens == SelectSeq(query_tokens, High)
        covered == Cardinality({i \in 1..Len(high_idf_tokens) :
                      \E j \in 1..Len(candidate_tokens) :
                          JaroWinklerTable[<<high_idf_tokens[i], candidate_tokens[j]>>] >= 880})
    IN  IF high_idf_tokens = <<>> THEN 0
        ELSE (1000 * covered) \div Len(high_idf_tokens)

\* transform() of a vectorizer that was assigned but never fitted raises
FeaturesRaise(m) == m.use_character_ngrams /\ m.vectorizer.state = "unfitted"

\* AdvancedBookMatcher.calculate_match_features
calculate_match_features(m, query_norm, candidate_norm, candidate_meta) ==
    LET query_tokens == extract_tokens(query_norm)
        candidate_tokens == candidate_meta.tokens
    IN  [char_tfidf_cosine |->
             IF m.use_character_ngrams /\ m.vectorizer.state # "none"
             THEN CharCosineTable[<<m.vectorizer.vocab, query_norm, candidate_norm>>]
             ELSE 0,
         token_set_sim |-> TokenSetRatioTable[<<query_norm, candidate_norm>>],
         soft_tfidf_overlap |->
             soft_tfidf_overlap(m.token_idf, query_tokens, candidate_tokens),
         author_lastname_sim |->
             AuthorLastnameSim(query_tokens, candidate_meta.author_last),
         distinctive_token_coverage |->
             DistinctiveTokenCoverage(m.token_idf, query_tokens, candidate_tokens)]

\* calculate_match_features over the fitted states and texts of the inputs
MatchFeaturesTable ==
    [s \in {<<u, v, t>> : u \in UseCharacterNgrams, v \in Vectorizers, t \in TokenIdfs} |->
        [p \in {<<q, c>> : q \in QueryVariants, c \in CandidateMetas} |->
            calculate_match_features(
                [use_character_ngrams |-> s[1], vectorizer |-> s[2], token_idf |-> s[3]],
                p[1], p[2].norm, p[2])]]

\* AdvancedBookMatcher.combine_features
combine_features(features) ==
    LET score == 100 * (  35 * features.char_tfidf_cosine
                        + 25 * features.token_set_sim
                        + 20 * features.soft_tfidf_overlap
                        + 15 * features.author_lastname_sim
                        +  5 * features.distinctive_token_coverage)
    IN  Min2(score, ScoreOne)

\* AdvancedBookMatcher.determine_match_type: <<match_type, confidence>>
determine_match_type(score) ==
    IF score >= 8500000 THEN <<"exact", score>>
    ELSE IF score >= 7000000 THEN <<"strong", score>>
    ELSE IF score >= 5500000 THEN <<"moderate", score>>
    ELSE IF score >= 4000000 THEN <<"weak", score>>
    ELSE <<"poor", score>>

(***************************************************************************)
(* Ranking                                                                  *)
(***************************************************************************)
\* the sort left out: all_scores stays in catalog order
SortForgotten(xs) == xs

\* a descending sort that is not stable: entries with equal scores come out in
\* the reverse of their input order
SortTiesReversed(xs) ==
    LET RECURSIVE InsertByScore(_, _)
        InsertByScore(sorted, e) ==
            IF sorted = <<>> THEN <<e>>
            ELSE IF Head(sorted).score > e.score
                 THEN <<Head(sorted)>> \o InsertByScore(Tail(sorted), e)
                 ELSE <<e>> \o sorted
        RECURSIVE SortFrom(_, _)
        SortFrom(i, acc) ==
            IF i > Len(xs) THEN acc ELSE SortFrom(i + 1, InsertByScore(acc, xs[i]))
    IN  SortFrom(1, <<>>)

\* list.sort(key=score, reverse=True): descending, and stable (entries with
\* equal keys keep their order, also under reverse=True).  InsertByScore
\* places e behind every entry whose score is not smaller.
SortByScoreDesc(xs) ==
    LET RECURSIVE InsertByScore(_, _)
        InsertByScore(sorted, e) ==
            IF sorted = <<>> THEN <<e>>
            ELSE IF Head(sorted).score >= e.score
                 THEN <<Head(sorted)>> \o InsertByScore(Tail(sorted), e)
                 ELSE <<e>> \o sorted
        RECURSIVE SortFrom(_, _)
        SortFrom(i, acc) ==
            IF i > Len(xs) THEN acc ELSE SortFrom(i + 1, InsertByScore(acc, xs[i]))
    IN  SortFrom(1, <<>>)

\* the slice left out: every scored entry is returned
SliceForgotten(xs, k) == xs

\* xs[:k] of Python, for every integer k
SlicePrefix(xs, k) ==
    IF k >= 0 THEN SubSeq(xs, 1, Min2(k, Len(xs)))
    ELSE SubSeq(xs, 1, Max2(Len(xs) + k, 0))

\* if score > best_score: best_score = score; best_features = features
BetterVariant(best, features) ==
    IF combine_features(features) > best.score
    THEN [score |-> combine_features(features), features |-> features]
    ELSE best

RECURSIVE BestVariantFrom(_, _, _, _, _)
\* the loop over the variants in match_books: [score, features] of the best;
\* features_of[<<q, c>>] is calculate_match_features(q, c.norm, c) of the instance
BestVariantFrom(features_of, variants, candidate_meta, v, best) ==
    IF v > Len(variants) THEN best
    ELSE BestVariantFrom(features_of, variants, candidate_meta, v + 1,
            BetterVariant(best, features_of[<<variants[v], candidate_meta>>]))

\* the scoring loop of match_books: all_scores, in corpus order
ScoreEntry(i, best) == [idx |-> i, score |-> best.score, features |-> best.features]

\* all_scores keeping the candidates whose best score is 0
AllScoresWithZeros(corpus_meta, features_of, variants) ==
    [i \in 1..Len(corpus_meta) |->
        ScoreEntry(i, BestVariantFrom(features_of, variants, corpus_meta[i], 1,
                                      [score |-> 0, features |-> <<>>]))]

AllScores(corpus_meta, features_of, variants) ==
    LET Positive(e) == e.score > 0
    IN  SelectSeq([i \in 1..Len(corpus_meta) |->
                     ScoreEntry(i, BestVariantFrom(features_of, variants, corpus_meta[i], 1,
                                                   [score |-> 0, features |-> <<>>]))],
                  Positive)

\* the (book, MatchScore) pair built for one ranked entry
AdvancedResultEntry(m, e, ocr_norm) ==
    [book |-> m.corpus_meta[e.idx].original_book,
     score |-> e.score,
     match_type |-> determine_match_type(e.score)[1],
     confidence |-> determine_match_type(e.score)[2],
     metadata |-> [features |-> e.features,
                   ocr_normalized |-> ocr_norm,
                   candidate_normalized |-> m.corpus_meta[e.idx].norm]]

\* the message match_books logs about the top result
ConfidenceLog(results, confidence_threshold) ==
    IF results # <<>> /\ results[1].score >= confidence_threshold THEN "confident"
    ELSE IF results # <<>> THEN "not_confident"
    ELSE "no_results"

\* the results list built from the top_k entries of the sorted all_scores
MatchResults(m, top, ocr_norm) ==
    [r \in 1..Len(top) |-> AdvancedResultEntry(m, top[r], ocr_norm)]

\* the return of match_books after the closing log statements
MatchReturn(results, confidence_threshold) ==
    [outcome |-> "return", error |-> "", result |-> results,
     log |-> ConfidenceLog(results, confidence_threshold)]

\* match_books dropping the entries whose score is below confidence_threshold
MatchRankedAboveThreshold(m, variants, top_k, confidence_threshold) ==
    LET Confident(e) == e.score >= confidence_threshold
    IN  MatchReturn(
            MatchResults(m,
                SlicePrefix(SortByScoreDesc(SelectSeq(AllScores(m.corpus_meta,
                        MatchFeaturesTable[<<m.use_character_ngrams, m.vectorizer,
                                             m.token_idf>>],
                        variants), Confident)),
                            top_k),
                variants[1]),
            confidence_threshold)

\* match_books from the scoring loop on; variants[1] is ocr_norm
MatchRanked(m, variants, top_k, confidence_threshold) ==
    MatchReturn(
        MatchResults(m,
            SlicePrefix(SortByScoreDesc(AllScores(m.corpus_meta,
                    MatchFeaturesTable[<<m.use_character_ngrams, m.vectorizer, m.token_idf>>],
                    variants)),
                        top_k),
            variants[1]),
        confidence_threshold)

\* match_books testing the blank query before is_fitted
match_books_blank_first(m, ocr_text, top_k, confidence_threshold) ==
    IF ocr_text = <<>> \/ Strip(ocr_text) = <<>>
    THEN [outcome |-> "return", error |-> "", result |-> <<>>, log |-> "none"]
    ELSE IF ~m.is_fitted
    THEN [outcome |-> "raise", error |-> "ValueError: not fitted", result |-> <<>>,
          log |-> "none"]
    ELSE IF m.corpus_meta # <<>> /\ FeaturesRaise(m)
    THEN [outcome |-> "raise", error |-> "NotFittedError", result |-> <<>>,
          log |-> "none"]
    ELSE MatchRanked(m, VariantsTable[ocr_text], top_k, confidence_threshold)

\* match_books rejecting the blank query with an error
match_books_blank_raises(m, ocr_text, top_k, confidence_threshold) ==
    IF ~m.is_fitted
    THEN [outcome |-> "raise", error |-> "ValueError: not fitted", result |-> <<>>,
          log |-> "none"]
    ELSE IF ocr_text = <<>> \/ Strip(ocr_text) = <<>>
    THEN [outcome |-> "raise", error |-> "ValueError: blank query", result |-> <<>>,
          log |-> "none"]
    ELSE IF m.corpus_meta # <<>> /\ FeaturesRaise(m)
    THEN [outcome |-> "raise", error |-> "NotFittedError", result |-> <<>>,
          log |-> "none"]
    ELSE MatchRanked(m, VariantsTable[ocr_text], top_k, confidence_threshold)

\* AdvancedBookMatcher.match_books: what the call does, [outcome, error, result, log]
match_books(m, ocr_text, top_k, confidence_threshold) ==
    IF ~m.is_fitted
    THEN [outcome |-> "raise", error |-> "ValueError: not fitted", result |-> <<>>,
          log |-> "none"]
    ELSE IF ocr_text = <<>> \/ Strip(ocr_text) = <<>>
    THEN [outcome |-> "return", error |-> "", result |-> <<>>, log |-> "none"]
    ELSE IF m.corpus_meta # <<>> /\ FeaturesRaise(m)
    THEN [outcome |-> "raise", error |-> "NotFittedError", result |-> <<>>,
          log |-> "none"]
    ELSE MatchRanked(m, VariantsTable[ocr_text], top_k, confidence_threshold)

(***************************************************************************)
(* BookMatcher (the legacy matcher): text preparation                       *)
(***************************************************************************)
\* common_words of _generate_text_variations
common_words ==
    { <<"t","h","e">>, <<"a">>, <<"a","n">>, <<"a","n","d">>, <<"o","r">>,
      <<"b","u","t">>, <<"i","n">>, <<"o","n">>, <<"a","t">>, <<"t","o">>,
      <<"f","o","r">>, <<"o","f">>, <<"w","i","t","h">>, <<"b","y">> }

\* BookMatcher._generate_text_variations
_generate_text_variations(text) ==
    LET words == Split(text)
        NotCommon(w) == Lower(w) \notin common_words
        filtered_words == SelectSeq(words, NotCommon)
        Kept(c) == IsWordChar(c) \/ IsSpace(c)
        no_punct == SelectSeq(text, Kept)
        mid_start == (Len(words) \div 2) - 1
    IN  (IF filtered_words # <<>> THEN <<Join(filtered_words, <<" ">>)>> ELSE <<>>)
        \o (IF Len(words) > 3
            THEN <<Join(SubSeq(words, 1, 3), <<" ">>),
                   Join(SubSeq(words, Len(words) - 2, Len(words)), <<" ">>)>>
            ELSE <<>>)
        \o (IF Len(words) > 6
            THEN <<Join(SubSeq(words, mid_start + 1, mid_start + 3), <<" ">>)>>
            ELSE <<>>)
        \o (IF no_punct # text THEN <<no_punct>> ELSE <<>>)

\* search_texts of BookMatcher.match_books
SearchTexts(ocr_text, denoised_text) ==
    <<IF denoised_text # <<>> THEN denoised_text ELSE ocr_text>>
    \o (IF denoised_text # <<>> /\ denoised_text # ocr_text THEN <<ocr_text>> ELSE <<>>)
    \o _generate_text_variations(IF denoised_text # <<>> THEN denoised_text ELSE ocr_text)

\* the truthy author names of a record, as both field loops walk them
AuthorNames(book) ==
    LET Truthy(a) == a # <<>>
    IN  IF book.author_kind \in {"list", "str"} THEN SelectSeq(book.authors, Truthy)
        ELSE <<>>

\* BookMatcher._extract_book_text
_extract_book_text(book) ==
    Join((IF book.title # <<>> THEN <<book.title>> ELSE <<>>)
         \o AuthorNames(book)
         \o (IF book.publisher # <<>> THEN <<book.publisher>> ELSE <<>>),
         <<" ">>)

\* the exact title check left out: every candidate is scored by the strategies
NoExactTitleCheck(search_texts, book) == FALSE

\* BookMatcher._check_exact_title_match
_check_exact_title_match(search_texts, book) ==
    /\ book.title # <<>>
    /\ \E i \in 1..Len(search_texts) :
          Strip(Lower(search_texts[i])) = Strip(Lower(book.title))

(***************************************************************************)
(* BookMatcher: the strategies, one value per search text, in thousandths   *)
(***************************************************************************)
\* the body of the loop of _character_similarity after the normalization
CharSimilarityOf(search_norm, book_norm) ==
    IF Max2(Len(search_norm), Len(book_norm)) = 0 THEN 0
    ELSE IF 2 * Min2(Len(search_norm), Len(book_norm))
              < Max2(Len(search_norm), Len(book_norm))
    THEN ((1000 - fuzz_ratio(search_norm, book_norm)) * 7) \div 10
    ELSE 1000 - fuzz_ratio(search_norm, book_norm)

\* BookMatcher._character_similarity
_character_similarity(search_texts, book_text) ==
    [i \in 1..Len(search_texts) |->
        IF search_texts[i] = <<>> \/ book_text = <<>> THEN 0
        ELSE CharSimilarityOf(_normalize_text(search_texts[i]),
                              _normalize_text(book_text))]

\* the cap of _fuzzy_match for a short search text against a long book text
FuzzyCap(best_score, clean_search, clean_book) ==
    IF Len(clean_search) < 10 /\ Len(clean_book) > 50 THEN Min2(best_score, 800)
    ELSE best_score

\* the body of the loop of _fuzzy_match after the normalization
FuzzyOf(clean_search, clean_book) ==
    FuzzyCap(MaxOf(<<token_set_ratio(clean_search, clean_book),
                     partial_ratio(clean_search, clean_book),
                     token_sort_ratio(clean_search, clean_book),
                     WRatio(clean_search, clean_book)>>),
             clean_search, clean_book)

\* BookMatcher._fuzzy_match
_fuzzy_match(search_texts, book_text) ==
    [i \in 1..Len(search_texts) |->
        FuzzyOf(_normalize_text(search_texts[i]), _normalize_text(book_text))]

\* jaccard_score * 0.6 + overlap_score * 0.4 of two non-empty token sets
TokenScoreOf(search_tokens, book_tokens) ==
    LET intersection == Cardinality(search_tokens \cap book_tokens)
        union == Cardinality(search_tokens \cup book_tokens)
    IN  (600 * intersection * Cardinality(search_tokens) + 400 * intersection * union)
            \div (union * Cardinality(search_tokens))

\* BookMatcher._token_based_match
_token_based_match(search_texts, book_text) ==
    [i \in 1..Len(search_texts) |->
        IF Split(search_texts[i]) = <<>> \/ Split(book_text) = <<>> THEN 0
        ELSE TokenScoreOf(Range(Split(Lower(search_texts[i]))),
                          Range(Split(Lower(book_text))))]

\* BookMatcher._longest_common_subsequence
_longest_common_subsequence(words1, words2) ==
    IF words1 = <<>> \/ words2 = <<>> THEN 0 ELSE LCSLen(words1, words2)

\* the number of consecutive pairs of search words found consecutively in the book words
ConsecutiveMatches(search_words, book_words) ==
    Cardinality({i \in 1..(Len(search_words) - 1) :
        \E j \in 1..(Len(book_words) - 1) :
            book_words[j] = search_words[i] /\ book_words[j + 1] = search_words[i + 1]})

\* BookMatcher._calculate_word_order_score: order_score + 0.3 * consecutive_bonus,
\* capped at 1.0, the bonus being 0.0 when either list has fewer than two words
_calculate_word_order_score(search_words, book_words) ==
    IF search_words = <<>> \/ book_words = <<>> THEN 0
    ELSE IF Len(search_words) < 2 \/ Len(book_words) < 2
    THEN Min2(1000, (1000 * _longest_common_subsequence(search_words, book_words))
                       \div Min2(Len(search_words), Len(book_words)))
    ELSE Min2(1000,
              (1000 * _longest_common_subsequence(search_words, book_words)
                    * (Len(search_words) - 1)
               + 300 * ConsecutiveMatches(search_words, book_words)
                     * Min2(Len(search_words), Len(book_words)))
              \div (Min2(Len(search_words), Len(book_words)) * (Len(search_words) - 1)))

\* BookMatcher._word_order_similarity
_word_order_similarity(search_texts, book_text) ==
    [i \in 1..Len(search_texts) |->
        _calculate_word_order_score(Split(Lower(search_texts[i])), Split(Lower(book_text)))]

\* the embedding model of an instance: none, or a loaded model.  The cosine of
\* a loaded model is 1.0 for equal texts and cos_other for different texts;
\* encode() of a model with raises = TRUE raises
NoSemanticModel == [kind |-> "none", cos_other |-> 0, raises |-> FALSE]

SemanticModels ==
    { [kind |-> "loaded", cos_other |-> -150, raises |-> FALSE],
      [kind |-> "loaded", cos_other |-> 0, raises |-> TRUE] }

\* _semantic_similarity marking a failure with the score -1.0
_semantic_similarity_sentinel(semantic_model, search_texts, book_text) ==
    IF semantic_model.kind = "none" \/ semantic_model.raises
    THEN [i \in 1..Len(search_texts) |-> -1000]
    ELSE [i \in 1..Len(search_texts) |->
            IF search_texts[i] = book_text THEN 1000 ELSE semantic_model.cos_other]

\* BookMatcher._semantic_similarity
_semantic_similarity(semantic_model, search_texts, book_text) ==
    IF semantic_model.kind = "none" \/ semantic_model.raises
    THEN [i \in 1..Len(search_texts) |-> 0]
    ELSE [i \in 1..Len(search_texts) |->
            IF search_texts[i] = book_text THEN 1000 ELSE semantic_model.cos_other]

\* the tokens of TfidfVectorizer's default token pattern on raw text: the runs
\* of two or more word characters, lower-cased
WordRuns(doc) ==
    LET Sep(c) == IF IsWordChar(c) THEN c ELSE " "
        Long(t) == Len(t) > 1
    IN  SelectSeq(Split(MapChars(Lower(doc), Sep)), Long)

\* the members of the 'english' stop word list that the texts of the inputs hold
ENGLISH_STOP_WORDS ==
    { <<"t","h","e">>, <<"a","n">>, <<"a","n","d">>, <<"o","r">>, <<"b","u","t">>,
      <<"i","n">>, <<"o","n">>, <<"a","t">>, <<"t","o">>, <<"f","o","r">>,
      <<"o","f">>, <<"w","i","t","h">>, <<"b","y">> }

\* the word n-grams (n = 1..3) of a token list, each with its number of occurrences
TermCounts(tokens) ==
    LET positions == {p \in (1..Len(tokens)) \X (1..3) : p[1] + p[2] - 1 <= Len(tokens)}
        TermAt(p) == SubSeq(tokens, p[1], p[1] + p[2] - 1)
    IN  [g \in {TermAt(p) : p \in positions} |->
            Cardinality({p \in positions : TermAt(p) = g})]

\* cosine of two count vectors in thousandths (computed to the hundredth); the
\* idf factor of the library is left out, as in CharCosine
CountCosine(ca, cb) ==
    IF DOMAIN ca \cap DOMAIN cb = {} THEN 0
    ELSE 10 * ISqrt((10000 * SumFn([g \in DOMAIN ca \cap DOMAIN cb |-> ca[g] * cb[g]])
                           * SumFn([g \in DOMAIN ca \cap DOMAIN cb |-> ca[g] * cb[g]]))
                    \div (SumFn([g \in DOMAIN ca |-> ca[g] * ca[g]])
                          * SumFn([g \in DOMAIN cb |-> cb[g] * cb[g]])))

\* the term counts of one document of _tfidf_similarity
TfidfTerms(doc) ==
    LET NotStop(t) == t \notin ENGLISH_STOP_WORDS
    IN  TermCounts(SelectSeq(WordRuns(doc), NotStop))

\* BookMatcher._tfidf_similarity; fit_transform raises on an empty vocabulary,
\* and the except branch returns zeros
_tfidf_similarity(search_texts, book_text) ==
    IF \A d \in Range(search_texts) \cup {book_text} : DOMAIN TfidfTerms(d) = {}
    THEN [i \in 1..Len(search_texts) |-> 0]
    ELSE [i \in 1..Len(search_texts) |->
            CountCosine(TfidfTerms(search_texts[i]), TfidfTerms(book_text))]

\* Strategy 2 of _calculate_field_match_score, for the two lengths
ContainsScore(shorter, longer) ==
    IF 10 * shorter >= 7 * longer THEN 700 + (300 * shorter) \div longer
    ELSE (700 * shorter) \div longer

\* BookMatcher._calculate_field_match_score
_calculate_field_match_score(search_text, field_text) ==
    IF search_text = <<>> \/ field_text = <<>> THEN 0
    ELSE IF search_text = field_text THEN 1000
    ELSE IF IsSubstring(search_text, field_text) \/ IsSubstring(field_text, search_text)
    THEN ContainsScore(Min2(Len(search_text), Len(field_text)),
                       Max2(Len(search_text), Len(field_text)))
    ELSE IF Split(search_text) # <<>> /\ Split(field_text) # <<>>
    THEN (700 * Cardinality(Range(Split(search_text)) \cap Range(Split(field_text))))
            \div Cardinality(Range(Split(search_text)) \cup Range(Split(field_text)))
    ELSE (fuzz_ratio(search_text, field_text) * 600) \div 1000

\* field_score of one search text: title 0.6, every author 0.3, publisher 0.1
FieldScoreOf(search_lower, book) ==
    (  6 * (IF book.title # <<>>
            THEN _calculate_field_match_score(search_lower, Strip(Lower(book.title)))
            ELSE 0)
     + 3 * SumFn([k \in 1..Len(AuthorNames(book)) |->
                    _calculate_field_match_score(search_lower,
                                                 Strip(Lower(AuthorNames(book)[k])))])
     + (IF book.publisher # <<>>
        THEN _calculate_field_match_score(search_lower, Strip(Lower(book.publisher)))
        ELSE 0)) \div 10

\* BookMatcher._calculate_field_scores
_calculate_field_scores(search_texts, book) ==
    [i \in 1..Len(search_texts) |-> FieldScoreOf(Strip(Lower(search_texts[i])), book)]

\* max(scores) if scores else 0.0
BestOf(scores) == IF scores # <<>> THEN MaxOf(scores) ELSE 0

\* the penalties of _combine_scores_asymmetric without the final cap
PenalizeUncapped(combined_score, best_token, best_char, search_length, book_length) ==
    LET long_search == IF search_length > book_length * 2
                       THEN (combined_score * 8) \div 10 ELSE combined_score
    IN  IF best_token < 300 /\ best_char < 300
        THEN (long_search * 7) \div 10 ELSE long_search

\* the two penalties and the cap of _combine_scores_asymmetric
PenalizeAndCap(combined_score, best_token, best_char, search_length, book_length) ==
    LET long_search == IF search_length > book_length * 2
                       THEN (combined_score * 8) \div 10 ELSE combined_score
        common_only == IF best_token < 300 /\ best_char < 300
                       THEN (long_search * 7) \div 10 ELSE long_search
    IN  Min2(common_only, 9500000)

\* BookMatcher._combine_scores_asymmetric
_combine_scores_asymmetric(char_scores, fuzzy_scores, token_scores, word_order_scores, semantic_scores, tfidf_scores, field_scores, search_text, book) ==
    PenalizeAndCap(
        100 * (  40 * BestOf(token_scores) + 25 * BestOf(char_scores)
               + 20 * BestOf(fuzzy_scores) + 15 * BestOf(word_order_scores)
               + 15 * BestOf(semantic_scores) + 10 * BestOf(tfidf_scores)
               + 20 * BestOf(field_scores)),
        BestOf(token_scores), BestOf(char_scores),
        Len(Split(search_text)), Len(Split(book.title)))

\* the classifier with strict comparisons: a boundary value falls in the lower tier
_determine_match_type_strict(score) ==
    IF score > 8500000 THEN <<"exact", score>>
    ELSE IF score > 7000000 THEN <<"strong", score>>
    ELSE IF score > 5500000 THEN <<"moderate", score>>
    ELSE IF score > 4000000 THEN <<"weak", score>>
    ELSE <<"poor", score>>

\* BookMatcher._determine_match_type: <<match_type, confidence>>
_determine_match_type(score) ==
    IF score >= 8500000 THEN <<"exact", score>>
    ELSE IF score >= 7000000 THEN <<"strong", score>>
    ELSE IF score >= 5500000 THEN <<"moderate", score>>
    ELSE IF score >= 4000000 THEN <<"weak", score>>
    ELSE <<"poor", score>>

(***************************************************************************)
(* BookMatcher: construction and match_books                                *)
(***************************************************************************)
\* BookMatcher.__init__: the fields of the new instance.  SEMANTIC_AVAILABLE is
\* the outcome of the library import; loaded is the model that
\* SentenceTransformer(...) returns, NoSemanticModel when the call raises
BookMatcherInit(use_semantic_matching_arg, SEMANTIC_AVAILABLE, loaded) ==
    IF use_semantic_matching_arg /\ SEMANTIC_AVAILABLE
    THEN IF loaded.kind = "loaded"
         THEN [use_semantic_matching |-> TRUE, semantic_model |-> loaded]
         ELSE [use_semantic_matching |-> FALSE, semantic_model |-> NoSemanticModel]
    ELSE [use_semantic_matching |-> use_semantic_matching_arg,
          semantic_model |-> NoSemanticModel]

\* the instances a constructor call can return
BookMatchers ==
    {BookMatcherInit(u, a, l) : u \in BOOLEAN, a \in BOOLEAN,
                                l \in SemanticModels \cup {NoSemanticModel}}

\* the inputs of the legacy calls
BookF == MkBook("f", <<>>, "str", <<<<"l", "i">>>>, <<>>)

\* the last library holds one record that lists the same author twice
LegacyLibraries ==
    { <<>>, <<BookC, BookB, BookA>>, <<BookF, BookE>>,
      <<MkBook("h", <<"A", "l", " ", "P", "o", "e", " ", "2">>, "list",
               <<<<"A", "l", " ", "P", "o", "e">>, <<"A", "l", " ", "P", "o", "e">>>>, <<>>)>> }


LegacyOcrTexts ==
    { <<>>, <<"t", "h", "e", " ", "5", "o", "l", "!">>,
      <<"T", "h", "e", " ", "S", "o", "l", " ", "A", "l", " ", "P", "o", "e">>,
      <<"A", "l", " ", "P", "o", "e">> }

LegacyDenoisedTexts == { <<>>, <<" ", "t", "h", "e", " ", "s", "o", "l">> }

\* search_texts of each pair of texts of the inputs
SearchTextsTable ==
    [p \in {<<o, d>> : o \in LegacyOcrTexts, d \in LegacyDenoisedTexts} |->
        SearchTexts(p[1], p[2])]

\* the strategies of match_books that do not read the instance
Strategies(search_texts, book) ==
    [char_scores |-> _character_similarity(search_texts, _extract_book_text(book)),
     fuzzy_scores |-> _fuzzy_match(search_texts, _extract_book_text(book)),
     token_scores |-> _token_based_match(search_texts, _extract_book_text(book)),
     word_order_scores |-> _word_order_similarity(search_texts, _extract_book_text(book)),
     tfidf_scores |-> _tfidf_similarity(search_texts, _extract_book_text(book)),
     field_scores |-> _calculate_field_scores(search_texts, book)]

\* Strategies over the search texts and books of the inputs, each computed once
StrategyTable ==
    [p \in {<<t, b>> : t \in {SearchTextsTable[q] : q \in DOMAIN SearchTextsTable},
                       b \in UNION {Range(c) : c \in LegacyLibraries}} |->
        Strategies(p[1], p[2])]

\* semantic_scores of match_books: [] unless use_semantic_matching
SemanticScores(matcher, search_texts, book) ==
    IF matcher.use_semantic_matching
    THEN _semantic_similarity(matcher.semantic_model, search_texts,
                              _extract_book_text(book))
    ELSE <<>>

\* the (book, MatchScore) pair of a candidate taken by the exact title check
ExactEntry(book) ==
    [book |-> book, score |-> ScoreOne, match_type |-> "exact", confidence |-> ScoreOne,
     metadata |-> [reason |-> "exact_title_match"]]

\* the (book, MatchScore) pair of a candidate scored by the strategies
ScoredEntry(book, combined_score, st, semantic_scores) ==
    [book |-> book, score |-> combined_score,
     match_type |-> _determine_match_type(combined_score)[1],
     confidence |-> _determine_match_type(combined_score)[2],
     metadata |-> [char_scores |-> st.char_scores, fuzzy_scores |-> st.fuzzy_scores,
                   token_scores |-> st.token_scores,
                   word_order_scores |-> st.word_order_scores,
                   semantic_scores |-> semantic_scores,
                   tfidf_scores |-> st.tfidf_scores]]

\* one pass of the loop over library_books, st being the strategies' values
ScoreWith(book, search_texts, st, semantic_scores) ==
    ScoredEntry(book,
        _combine_scores_asymmetric(st.char_scores, st.fuzzy_scores, st.token_scores,
            st.word_order_scores, semantic_scores, st.tfidf_scores, st.field_scores,
            search_texts[1], book),
        st, semantic_scores)

ScoreBook(matcher, search_texts, book) ==
    IF _check_exact_title_match(search_texts, book) THEN ExactEntry(book)
    ELSE ScoreWith(book, search_texts, StrategyTable[<<search_texts, book>>],
                   SemanticScores(matcher, search_texts, book))

\* BookMatcher.match_books: what the call does, [outcome, error, result, log]
BookMatcher_match_books(matcher, ocr_text, denoised_text, library_books, top_k) ==
    [outcome |-> "return", error |-> "",
     result |-> IF library_books = <<>> THEN <<>>
                ELSE SlicePrefix(
                        SortByScoreDesc(
                            [i \in 1..Len(library_books) |->
                                ScoreBook(matcher,
                                          SearchTextsTable[<<ocr_text, denoised_text>>],
                                          library_books[i])]),
                        top_k),
     log |-> "none"]

(***************************************************************************)
(* State                                                                    *)
(***************************************************************************)
VARIABLES
    use_character_ngrams,   \* AdvancedBookMatcher.use_character_ngrams
    vectorizer,             \* .vectorizer: [state: "none"|"unfitted"|"fitted", vocab]
    corpus_matrix,          \* .corpus_matrix: the documents it was computed from
    corpus_meta,            \* .corpus_meta
    token_idf,              \* .token_idf
    is_fitted,              \* .is_fitted
    fit_pc,                 \* position of the running fit() call, "idle" if none
    fit_corpus,             \* local variable corpus of the running fit() call
    engine,                 \* the class this run has constructed its matcher from
    use_semantic_matching,  \* BookMatcher.use_semantic_matching
    semantic_model,         \* BookMatcher.semantic_model
    flow,                   \* per handler of the web backend: where its thread stands
    tasks,                  \* main.py: the dict tasks, task_id -> its fields
    worker,                 \* per task id: the statement its worker thread is at
    response,               \* what the last request to the task endpoints answered
    ret                     \* what the last completed call did

vars == <<use_character_ngrams, vectorizer, corpus_matrix, corpus_meta, token_idf,
          is_fitted, fit_pc, fit_corpus, engine, use_semantic_matching, semantic_model,
          flow, tasks, worker, response, ret>>

adv_vars == <<use_character_ngrams, vectorizer, corpus_matrix, corpus_meta, token_idf,
              is_fitted>>

\* the instance as the methods read it
Matcher ==
    [use_character_ngrams |-> use_character_ngrams, vectorizer |-> vectorizer,
     corpus_meta |-> corpus_meta, token_idf |-> token_idf, is_fitted |-> is_fitted]

\* the BookMatcher instance as the methods read it
LegacyMatcher ==
    [use_semantic_matching |-> use_semantic_matching, semantic_model |-> semantic_model]

legacy_vars == <<use_semantic_matching, semantic_model>>

\* the record kept of a completed call
Call(op, ocr_text, denoised_text, top_k, confidence_threshold, catalog, score, out) ==
    [op |-> op, ocr_text |-> ocr_text, denoised_text |-> denoised_text, top_k |-> top_k,
     confidence_threshold |-> confidence_threshold, catalog |-> catalog, score |-> score,
     outcome |-> out.outcome, error |-> out.error, result |-> out.result,
     log |-> out.log]

NoCall ==
    Call("none", <<>>, <<>>, 0, 0, <<>>, 0,
         [outcome |-> "none", error |-> "", result |-> <<>>, log |-> "none"])

\* the handlers of the pipeline that fit the matcher and match against it:
\* _match_books runs in the thread of an image task, get_alternatives in the
\* thread that serves /api/alternatives
Flows == {"_match_books", "get_alternatives"}

\* no handler is running
IdleFlows == [f \in Flows |-> [pc |-> "idle", library_books |-> <<>>, ocr_text |-> <<>>]]

FitOutcome(outcome) ==
    [outcome |-> outcome, error |-> IF outcome = "raise" THEN "ValueError" ELSE "",
     result |-> <<>>, log |-> "none"]

\* AdvancedBookMatcher.__init__
AdvancedInit ==
    /\ use_character_ngrams \in UseCharacterNgrams
    /\ vectorizer = NoVectorizer
    /\ corpus_matrix = <<>>
    /\ corpus_meta = <<>>
    /\ token_idf = <<>>
    /\ is_fitted = FALSE
    /\ fit_pc = "idle"
    /\ fit_corpus = <<>>

\* A run constructs its matcher from one of the two classes, which share no
\* state: create_advanced_book_matcher() or create_book_matcher().  The fields
\* of the class that is not in use keep their constructor values.
Init ==
    /\ AdvancedInit
    /\ \E matcher \in BookMatchers :
          /\ use_semantic_matching = matcher.use_semantic_matching
          /\ semantic_model = matcher.semantic_model
          /\ \/ /\ engine = "AdvancedBookMatcher"
                /\ matcher = BookMatcherInit(FALSE, FALSE, NoSemanticModel)
             \/ engine = "BookMatcher"
    /\ flow = IdleFlows
    /\ tasks = <<>>
    /\ worker = [task_id \in {"task_1", "task_2"} |-> "not_started"]
    /\ response = [op |-> "none", task_id |-> "", code |-> 0, status |-> "",
                   payload |-> "None"]
    /\ ret = NoCall

\* fit adding the records of its catalog to the ones an earlier call stored
FitBuildCorpusAppends(catalog) ==
    /\ engine = "AdvancedBookMatcher"
    /\ fit_pc = "idle"
    /\ LET meta == build_corpus(catalog)
       IN  /\ corpus_meta' = corpus_meta \o meta
           /\ fit_corpus' = [i \in 1..Len(meta) |-> meta[i].norm]
    /\ fit_pc' = "char_vectorizer"
    /\ ret' = Call("fit", <<>>, <<>>, 0, 0, catalog, 0, FitOutcome("pending"))
    /\ UNCHANGED <<use_character_ngrams, vectorizer, corpus_matrix, token_idf,
                   is_fitted, engine, legacy_vars, flow, tasks, worker, response>>

(***************************************************************************)
(* AdvancedBookMatcher.fit, statement by statement                          *)
(***************************************************************************)
\* corpus, meta = self.build_corpus(catalog); self.corpus_meta = meta
FitBuildCorpus(catalog) ==
    /\ engine = "AdvancedBookMatcher"
    /\ fit_pc = "idle"
    /\ LET meta == build_corpus(catalog)
       IN  /\ corpus_meta' = meta
           /\ fit_corpus' = [i \in 1..Len(meta) |-> meta[i].norm]
    /\ fit_pc' = "char_vectorizer"
    /\ ret' = Call("fit", <<>>, <<>>, 0, 0, catalog, 0, FitOutcome("pending"))
    /\ UNCHANGED <<use_character_ngrams, vectorizer, corpus_matrix, token_idf,
                   is_fitted, engine, legacy_vars, flow, tasks, worker, response>>

\* self.vectorizer = TfidfVectorizer(...); self.corpus_matrix = fit_transform(corpus)
FitCharVectorizer ==
    /\ fit_pc = "char_vectorizer"
    /\ LET termSets == [i \in 1..Len(fit_corpus) |-> CharNgrams(fit_corpus[i])]
       IN  IF ~use_character_ngrams
           THEN /\ fit_pc' = "token_idf"
                /\ UNCHANGED <<vectorizer, corpus_matrix, fit_corpus, ret>>
           ELSE IF VectorizerRaises(termSets)
           THEN /\ vectorizer' = UnfittedVectorizer
                /\ fit_pc' = "idle"
                /\ fit_corpus' = <<>>
                /\ ret' = Call("fit", <<>>, <<>>, 0, 0, ret.catalog, 0, FitOutcome("raise"))
                /\ UNCHANGED corpus_matrix
           ELSE /\ vectorizer' = [state |-> "fitted", vocab |-> PrunedVocabulary(termSets)]
                /\ corpus_matrix' = fit_corpus
                /\ fit_pc' = "token_idf"
                /\ UNCHANGED <<fit_corpus, ret>>
    /\ UNCHANGED <<use_character_ngrams, corpus_meta, token_idf, is_fitted, engine,
                   legacy_vars, flow, tasks, worker, response>>

\* token_vectorizer.fit_transform(corpus); self.token_idf = {...}; self.is_fitted = True
FitTokenIdf ==
    /\ fit_pc = "token_idf"
    /\ LET termSets == [i \in 1..Len(fit_corpus) |-> Range(WordTokens(fit_corpus[i]))]
       IN  IF VectorizerRaises(termSets)
           THEN /\ ret' = Call("fit", <<>>, <<>>, 0, 0, ret.catalog, 0, FitOutcome("raise"))
                /\ UNCHANGED <<token_idf, is_fitted>>
           ELSE /\ token_idf' = TokenIdfOf(fit_corpus)
                /\ is_fitted' = TRUE
                /\ ret' = Call("fit", <<>>, <<>>, 0, 0, ret.catalog, 0, FitOutcome("return"))
    /\ fit_pc' = "idle"
    /\ fit_corpus' = <<>>
    /\ UNCHANGED <<use_character_ngrams, vectorizer, corpus_matrix, corpus_meta, engine,
                   legacy_vars, flow, tasks, worker, response>>

\* match_books applying its slice to the stored corpus_meta
MatchBooksTruncatesCorpus(ocr_text, top_k, confidence_threshold) ==
    /\ engine = "AdvancedBookMatcher"
    /\ fit_pc = "idle"
    /\ ret' = Call("match_books", ocr_text, <<>>, top_k, confidence_threshold, <<>>, 0,
                   match_books(Matcher, ocr_text, top_k, confidence_threshold))
    /\ corpus_meta' = SlicePrefix(corpus_meta, top_k)
    /\ UNCHANGED <<use_character_ngrams, vectorizer, corpus_matrix, token_idf, is_fitted,
                   fit_pc, fit_corpus, engine, legacy_vars, flow, tasks, worker, response>>

(***************************************************************************)
(* AdvancedBookMatcher.match_books, one call                                *)
(***************************************************************************)
MatchBooks(ocr_text, top_k, confidence_threshold) ==
    /\ engine = "AdvancedBookMatcher"
    /\ fit_pc = "idle"
    /\ ret' = Call("match_books", ocr_text, <<>>, top_k, confidence_threshold, <<>>, 0,
                   match_books(Matcher, ocr_text, top_k, confidence_threshold))
    /\ UNCHANGED <<adv_vars, fit_pc, fit_corpus, engine, legacy_vars, flow, tasks, worker, response>>

(***************************************************************************)
(* BookMatcher.match_books, one call                                        *)
(***************************************************************************)
LegacyMatchBooks(ocr_text, denoised_text, library_books, top_k) ==
    /\ engine = "BookMatcher"
    /\ ret' = Call("BookMatcher.match_books", ocr_text, denoised_text, top_k, 0,
                   library_books, 0,
                   BookMatcher_match_books(LegacyMatcher, ocr_text, denoised_text,
                                           library_books, top_k))
    /\ UNCHANGED <<adv_vars, fit_pc, fit_corpus, engine, legacy_vars, flow, tasks, worker, response>>

(***************************************************************************)
(* determine_match_type / _determine_match_type, one call                   *)
(***************************************************************************)
DetermineMatchType(score) ==
    /\ fit_pc = "idle"
    /\ ret' = Call("determine_match_type", <<>>, <<>>, 0, 0, <<>>, score,
                   [outcome |-> "return", error |-> "",
                    result |-> IF engine = "AdvancedBookMatcher"
                               THEN determine_match_type(score)
                               ELSE _determine_match_type(score),
                    log |-> "none"])
    /\ UNCHANGED <<adv_vars, fit_pc, fit_corpus, engine, legacy_vars, flow, tasks, worker, response>>

Next ==
    \/ \E catalog \in Catalogs : FitBuildCorpus(catalog)
    \/ FitCharVectorizer
    \/ FitTokenIdf
    \/ \E ocr_text \in Queries, top_k \in TopKs, confidence_threshold \in Thresholds :
          MatchBooks(ocr_text, top_k, confidence_threshold)
    \/ \E ocr_text \in LegacyOcrTexts, denoised_text \in LegacyDenoisedTexts,
          library_books \in LegacyLibraries, top_k \in TopKs :
          LegacyMatchBooks(ocr_text, denoised_text, library_books, top_k)
    \/ \E score \in MatchTypeScores : DetermineMatchType(score)

(***************************************************************************)
(* normalize_text applied to a text, as a run of its own                    *)
(***************************************************************************)
\* longest text normalize_text is applied to
MaxTextLen == 3

\* the texts normalize_text is applied to: a letter, an accented letter, a
\* digit, the ampersand, a dash, the space and the tab, in every order
NormalizeInputs ==
    UNION {[1..n -> {"a", "e_acute", "5", "&", "endash", " ", "\t"}] : n \in 0..MaxTextLen}

\* a new matcher and a text that normalize_text is about to be called with
NormalizeInit ==
    /\ AdvancedInit
    /\ engine = "AdvancedBookMatcher"
    /\ use_semantic_matching = FALSE
    /\ semantic_model = NoSemanticModel
    /\ flow = IdleFlows
    /\ tasks = <<>>
    /\ worker = [task_id \in {"task_1", "task_2"} |-> "not_started"]
    /\ response = [op |-> "none", task_id |-> "", code |-> 0, status |-> "",
                   payload |-> "None"]
    /\ \E text \in NormalizeInputs :
          ret = Call("normalize_text", text, <<>>, 0, 0, <<>>, 0,
                     [outcome |-> "pending", error |-> "", result |-> <<>>,
                      log |-> "none"])

\* AdvancedBookMatcher.normalize_text, one call
NormalizeText ==
    /\ ret.op = "normalize_text" /\ ret.outcome = "pending"
    /\ ret' = Call("normalize_text", ret.ocr_text, <<>>, 0, 0, <<>>, 0,
                   [outcome |-> "return", error |-> "",
                    result |-> normalize_text(ret.ocr_text), log |-> "none"])
    /\ UNCHANGED <<adv_vars, fit_pc, fit_corpus, engine, legacy_vars, flow, tasks, worker, response>>

SpecNormalize == NormalizeInit /\ [][NormalizeText]_vars

(***************************************************************************)
(* The web backend: one SpinecatPipeline, its one AdvancedBookMatcher, and  *)
(* the two handlers that fit it and match against it.  Each handler runs in *)
(* a thread of its own, and nothing orders the statements of one against    *)
(* the statements of the other.                                             *)
(***************************************************************************)
\* the pipeline has constructed its matcher and no handler is running
ThreadInit ==
    /\ AdvancedInit
    /\ engine = "AdvancedBookMatcher"
    /\ use_semantic_matching = FALSE
    /\ semantic_model = NoSemanticModel
    /\ flow = IdleFlows
    /\ tasks = <<>>
    /\ worker = [task_id \in {"task_1", "task_2"} |-> "not_started"]
    /\ response = [op |-> "none", task_id |-> "", code |-> 0, status |-> "",
                   payload |-> "None"]
    /\ ret = NoCall

\* the handler is entered with a non-empty library and calls fit, which runs
\* build_corpus and assigns self.corpus_meta
FlowFitBuildCorpus(f, library_books, ocr_text) ==
    /\ engine = "AdvancedBookMatcher"
    /\ flow[f].pc = "idle"
    /\ library_books # <<>>
    /\ corpus_meta' = build_corpus(library_books)
    /\ flow' = [flow EXCEPT ![f] = [pc |-> "char_vectorizer",
                                    library_books |-> library_books,
                                    ocr_text |-> ocr_text]]
    /\ UNCHANGED <<use_character_ngrams, vectorizer, corpus_matrix, token_idf,
                   is_fitted, fit_pc, fit_corpus, engine, legacy_vars, tasks,
                   worker, response, ret>>

\* fit goes on with the character vectorizer; a ValueError of fit_transform
\* ends the handler in its except clause, which returns []
FlowFitCharVectorizer(f) ==
    /\ flow[f].pc = "char_vectorizer"
    /\ LET fitted == FitTable[flow[f].library_books]
       IN  IF ~use_character_ngrams
           THEN /\ flow' = [flow EXCEPT ![f].pc = "token_idf"]
                /\ UNCHANGED <<vectorizer, corpus_matrix, ret>>
           ELSE IF fitted.char_raises
           THEN /\ vectorizer' = UnfittedVectorizer
                /\ flow' = [flow EXCEPT ![f] = IdleFlows[f]]
                /\ ret' = Call(f, flow[f].ocr_text, <<>>, 0, 0, flow[f].library_books, 0,
                               [outcome |-> "return", error |-> "ValueError",
                                result |-> <<>>, log |-> "error"])
                /\ UNCHANGED corpus_matrix
           ELSE /\ vectorizer' = [state |-> "fitted", vocab |-> fitted.vocab]
                /\ corpus_matrix' = fitted.corpus
                /\ flow' = [flow EXCEPT ![f].pc = "token_idf"]
                /\ UNCHANGED ret
    /\ UNCHANGED <<use_character_ngrams, corpus_meta, token_idf, is_fitted, fit_pc,
                   fit_corpus, engine, legacy_vars, tasks, worker,
                   response>>

\* fit ends with the token vectorizer, self.token_idf and self.is_fitted
FlowFitTokenIdf(f) ==
    /\ flow[f].pc = "token_idf"
    /\ LET fitted == FitTable[flow[f].library_books]
       IN  IF fitted.token_raises
           THEN /\ flow' = [flow EXCEPT ![f] = IdleFlows[f]]
                /\ ret' = Call(f, flow[f].ocr_text, <<>>, 0, 0, flow[f].library_books, 0,
                               [outcome |-> "return", error |-> "ValueError",
                                result |-> <<>>, log |-> "error"])
                /\ UNCHANGED <<token_idf, is_fitted>>
           ELSE /\ token_idf' = fitted.token_idf
                /\ is_fitted' = TRUE
                /\ flow' = [flow EXCEPT ![f].pc = "match_books"]
                /\ UNCHANGED ret
    /\ UNCHANGED <<use_character_ngrams, vectorizer, corpus_matrix, corpus_meta, fit_pc,
                   fit_corpus, engine, legacy_vars, tasks, worker,
                   response>>

\* the handler calls match_books (top_k=5, confidence_threshold=0.65 in
\* _match_books; top_k=10, confidence_threshold=0.0 in get_alternatives) and
\* returns its list, or [] from its except clause
FlowMatchBooks(f, top_k, confidence_threshold) ==
    /\ flow[f].pc = "match_books"
    /\ top_k = (IF f = "_match_books" THEN 5 ELSE 10)
    /\ confidence_threshold = (IF f = "_match_books" THEN 6500000 ELSE 0)
    /\ ret' = Call(f, flow[f].ocr_text, <<>>, top_k, confidence_threshold,
                   flow[f].library_books, 0,
                   [match_books(Matcher, flow[f].ocr_text, top_k, confidence_threshold)
                       EXCEPT !.outcome = "return"])
    /\ flow' = [flow EXCEPT ![f] = IdleFlows[f]]
    /\ UNCHANGED <<adv_vars, fit_pc, fit_corpus, engine, legacy_vars, tasks, worker,
                   response>>

ThreadNext ==
    \E f \in Flows :
        \/ \E library_books \in {<<BookC, BookB, BookA>>, <<BookD, BookC, BookA>>, <<BookA>>, <<BookA, BookE>>},
              ocr_text \in {<<"B", "o", "g", " ", "l", "i">>, <<"T", "h", "e", " ", "S", "o", "l", " ", "A", "l", " ", "P", "o", "e">>} :
              FlowFitBuildCorpus(f, library_books, ocr_text)
        \/ FlowFitCharVectorizer(f)
        \/ FlowFitTokenIdf(f)
        \/ \E top_k \in {5, 10}, confidence_threshold \in Thresholds :
              FlowMatchBooks(f, top_k, confidence_threshold)

SpecThreads == ThreadInit /\ [][ThreadNext]_vars

(***************************************************************************)
(* The web backend's task registry (main.py): the dict tasks, the worker    *)
(* thread started for each task, and the requests that read and write it.   *)
(* A statement of the worker and a request run one after the other in some  *)
(* order; the pipeline has been initialized, as process_image_start         *)
(* requires before it registers a task.                                     *)
(***************************************************************************)
\* update_task_progress(task_id, progress, message): the dict tasks afterwards
update_task_progress(registry, task_id, progress, message) ==
    IF task_id \in DOMAIN registry
    THEN [registry EXCEPT ![task_id].progress = progress,
                          ![task_id].message = message,
                          ![task_id].status = "processing"]
    ELSE registry

\* POST /api/process-image: rejects a file that is not an image, else registers
\* the task under a new id and starts its worker thread
process_image_start(task_id, is_image) ==
    /\ task_id \notin DOMAIN tasks
    /\ IF ~is_image
       THEN /\ response' = [op |-> "process_image_start", task_id |-> task_id,
                            code |-> 400, status |-> "", payload |-> "None"]
            /\ UNCHANGED <<tasks, worker>>
       ELSE /\ tasks' = [t \in DOMAIN tasks \cup {task_id} |->
                            IF t = task_id
                            THEN [status |-> "processing", progress |-> 0,
                                  message |-> "Queued", result |-> "None",
                                  error |-> "unset"]
                            ELSE tasks[t]]
            /\ worker' = [worker EXCEPT ![task_id] = "line_108"]
            /\ response' = [op |-> "process_image_start", task_id |-> task_id,
                            code |-> 200, status |-> "", payload |-> "None"]
    /\ UNCHANGED <<adv_vars, fit_pc, fit_corpus, engine, legacy_vars, flow, ret>>

\* _run_pipeline_background(task_id, ...): the next statement of the worker
\* thread of the task; process_image calls progress_callback any number of
\* times, and it or the building of the payload may raise
_run_pipeline_background(task_id) ==
    /\ \/ /\ worker[task_id] = "line_108"
          /\ tasks' = update_task_progress(tasks, task_id, 10, "Initializing pipeline...")
          /\ worker' = [worker EXCEPT ![task_id] = "line_113"]
       \/ /\ worker[task_id] = "line_113"
          /\ tasks' = update_task_progress(tasks, task_id, 20, "Starting spine detection...")
          /\ worker' = [worker EXCEPT ![task_id] = "line_118"]
       \/ /\ worker[task_id] = "line_118"
          /\ \E progress \in {20, 30, 70, 100} :
                tasks' = update_task_progress(tasks, task_id, progress, "progress_callback")
          /\ UNCHANGED worker
       \/ /\ worker[task_id] = "line_118"
          /\ tasks' = [tasks EXCEPT ![task_id].result = "result_data"]
          /\ worker' = [worker EXCEPT ![task_id] = "line_235"]
       \/ /\ worker[task_id] = "line_235"
          /\ tasks' = update_task_progress(tasks, task_id, 100, "Processing complete!")
          /\ worker' = [worker EXCEPT ![task_id] = "line_236"]
       \/ /\ worker[task_id] = "line_236"
          /\ tasks' = [tasks EXCEPT ![task_id].status = "completed"]
          /\ worker' = [worker EXCEPT ![task_id] = "finished"]
       \/ /\ worker[task_id] = "line_118"
          /\ tasks' = [tasks EXCEPT ![task_id].status = "error",
                                    ![task_id].error = "str(e)",
                                    ![task_id].message = "Processing failed"]
          /\ worker' = [worker EXCEPT ![task_id] = "finished"]
    /\ UNCHANGED <<adv_vars, fit_pc, fit_corpus, engine, legacy_vars, flow, ret, response>>

\* GET /api/test-progress/{task_id}
test_progress(task_id) ==
    /\ IF task_id \notin DOMAIN tasks
       THEN /\ response' = [op |-> "test_progress", task_id |-> task_id, code |-> 404,
                            status |-> "", payload |-> "None"]
            /\ UNCHANGED tasks
       ELSE /\ tasks' = update_task_progress(tasks, task_id, 50,
                                             "Test progress update from API endpoint")
            /\ response' = [op |-> "test_progress", task_id |-> task_id, code |-> 200,
                            status |-> "", payload |-> "None"]
    /\ UNCHANGED <<adv_vars, fit_pc, fit_corpus, engine, legacy_vars, flow, ret, worker>>

\* GET /api/progress/{task_id}
get_progress(task_id) ==
    /\ response' =
          IF task_id \notin DOMAIN tasks
          THEN [op |-> "get_progress", task_id |-> task_id, code |-> 404,
                status |-> "", payload |-> "None"]
          ELSE [op |-> "get_progress", task_id |-> task_id, code |-> 200,
                status |-> tasks[task_id].status, payload |-> "None"]
    /\ UNCHANGED <<adv_vars, fit_pc, fit_corpus, engine, legacy_vars, flow, ret, tasks,
                   worker>>

\* GET /api/result/{task_id}
get_result(task_id) ==
    /\ response' =
          IF task_id \notin DOMAIN tasks
          THEN [op |-> "get_result", task_id |-> task_id, code |-> 404,
                status |-> "", payload |-> "None"]
          ELSE IF tasks[task_id].status # "completed"
          THEN [op |-> "get_result", task_id |-> task_id, code |-> 200,
                status |-> tasks[task_id].status, payload |-> "None"]
          ELSE [op |-> "get_result", task_id |-> task_id, code |-> 200,
                status |-> "completed", payload |-> tasks[task_id].result]
    /\ UNCHANGED <<adv_vars, fit_pc, fit_corpus, engine, legacy_vars, flow, ret, tasks,
                   worker>>

TaskNext ==
    \/ \E task_id \in DOMAIN worker, is_image \in BOOLEAN :
          process_image_start(task_id, is_image)
    \/ \E task_id \in DOMAIN worker : _run_pipeline_background(task_id)
    \/ \E task_id \in DOMAIN worker : test_progress(task_id)
    \/ \E task_id \in DOMAIN worker : get_progress(task_id)
    \/ \E task_id \in DOMAIN worker : get_result(task_id)

SpecTasks == ThreadInit /\ [][TaskNext]_vars

Spec == Init /\ [][Next]_vars

(***************************************************************************)
(* Properties of the ranked lists                                           *)
(***************************************************************************)
\* the last completed call is a match_books call, of either class, that returned
ReturnedRanking ==
    /\ ret.op \in {"match_books", "BookMatcher.match_books"}
    /\ ret.outcome = "return"

\* the catalog the last match_books call ranked, in input order
RankedCatalog ==
    IF ret.op = "match_books"
    THEN [i \in 1..Len(corpus_meta) |-> corpus_meta[i].original_book]
    ELSE ret.catalog

\* the position of a book in the ranked catalog
CatalogPosition(book) == CHOOSE i \in 1..Len(RankedCatalog) : RankedCatalog[i] = book

\* C1: in every list that either match_books returns, the score of each entry
\* is greater than or equal to the score of the entry that follows it.
C1_SortedByScore ==
    ReturnedRanking =>
        \A i \in 1..(Len(ret.result) - 1) :
            ret.result[i].score >= ret.result[i + 1].score

\* C1 happens: the advanced matcher returned a list whose first entry stands
\* later in the catalog than its second and has the strictly higher score.
C1_Reordered ==
    /\ ret.op = "match_books" /\ ret.outcome = "return"
    /\ Len(ret.result) >= 2
    /\ ret.result[1].score > ret.result[2].score
    /\ CatalogPosition(ret.result[1].book) > CatalogPosition(ret.result[2].book)

\* C2, as stated: for every integer top_k the list returned by
\* AdvancedBookMatcher.match_books has at most min(top_k, len(catalog)) entries.
C2_LengthAtMostMinTopK ==
    ret.op = "match_books" /\ ret.outcome = "return" =>
        Len(ret.result) <= Min2(ret.top_k, Len(corpus_meta))

\* C2, amended: for top_k >= 0 the list returned by
\* AdvancedBookMatcher.match_books has at most min(top_k, len(catalog)) entries;
\* for top_k < 0 it has at most max(len(catalog) + top_k, 0) entries.
C2_LengthBound ==
    ret.op = "match_books" /\ ret.outcome = "return" =>
        IF ret.top_k >= 0
        THEN Len(ret.result) <= Min2(ret.top_k, Len(corpus_meta))
        ELSE Len(ret.result) <= Max2(Len(corpus_meta) + ret.top_k, 0)

\* C2 happens: a call with top_k = 1 returned one entry where the same call
\* with top_k = 2 returns two.
C2_Truncated ==
    /\ ret.op = "match_books" /\ ret.outcome = "return"
    /\ ret.top_k = 1 /\ Len(ret.result) = 1
    /\ Len(match_books(Matcher, ret.ocr_text, 2, ret.confidence_threshold).result) = 2

\* C3: match_books on an instance that is not fitted raises the not-fitted
\* error and returns no list, also for a blank query; and is_fitted becomes
\* true only in the step that completes a fit call successfully.
C3_UnfittedRaises ==
    /\ [](ret.op = "match_books" /\ ~is_fitted =>
            /\ ret.outcome = "raise"
            /\ ret.error = "ValueError: not fitted"
            /\ ret.result = <<>>)
    /\ [][~is_fitted /\ is_fitted' =>
            /\ fit_pc = "token_idf" /\ fit_pc' = "idle"
            /\ ret'.op = "fit" /\ ret'.outcome = "return"]_vars

\* C3 happens: after a fit call that failed, match_books with a blank query
\* raised.
C3_BlankQueryUnfitted ==
    /\ ret.op = "match_books" /\ ~is_fitted
    /\ corpus_meta # <<>>
    /\ ret.ocr_text # <<>> /\ Strip(ret.ocr_text) = <<>>
    /\ ret.outcome = "raise"

\* C4: on a fitted instance match_books with an empty or whitespace-only query
\* returns the empty list and raises nothing, for every top_k and threshold.
C4_BlankQueryReturnsEmpty ==
    ret.op = "match_books" /\ is_fitted /\ Strip(ret.ocr_text) = <<>> =>
        ret.outcome = "return" /\ ret.error = "" /\ ret.result = <<>>

\* C4 happens: a fitted instance answered a whitespace-only query, called with
\* a negative top_k and a positive threshold.
C4_BlankQueryFitted ==
    /\ ret.op = "match_books" /\ is_fitted
    /\ ret.ocr_text # <<>> /\ Strip(ret.ocr_text) = <<>>
    /\ ret.top_k < 0 /\ ret.confidence_threshold > 0
    /\ ret.outcome = "return"

\* the order of the match types, lowest first
TierRank(match_type) ==
    CHOOSE r \in 1..5 : <<"poor", "weak", "moderate", "strong", "exact">>[r] = match_type

\* C5: both classifiers map a score to exact from 0.85, strong from 0.70,
\* moderate from 0.55, weak from 0.40 and poor below, a boundary value falling
\* in the higher tier; the mapping is monotonic and the two classifiers agree.
C5_MatchTypeThresholds ==
    /\ ret.op = "determine_match_type" =>
          ret.result[1] = IF ret.score >= 8500000 THEN "exact"
                          ELSE IF ret.score >= 7000000 THEN "strong"
                          ELSE IF ret.score >= 5500000 THEN "moderate"
                          ELSE IF ret.score >= 4000000 THEN "weak"
                          ELSE "poor"
    /\ \A s \in MatchTypeScores :
          determine_match_type(s)[1] = _determine_match_type(s)[1]
    /\ \A s, t \in MatchTypeScores :
          s <= t => /\ TierRank(determine_match_type(s)[1])
                         <= TierRank(determine_match_type(t)[1])
                    /\ TierRank(_determine_match_type(s)[1])
                         <= TierRank(_determine_match_type(t)[1])

\* C5 happens: the legacy classifier was applied to the boundary value 0.85.
C5_BoundaryClassified ==
    /\ ret.op = "determine_match_type" /\ engine = "BookMatcher"
    /\ ret.score = 8500000
    /\ ret.result[1] = "exact"

\* C6: the score of every entry that either match_books returns lies in [0, 1].
C6_ScoreInUnitInterval ==
    ReturnedRanking =>
        \A i \in 1..Len(ret.result) :
            ret.result[i].score >= 0 /\ ret.result[i].score <= ScoreOne

\* C7, as stated: a candidate that BookMatcher.match_books returns and whose
\* title has the normal form of the denoised or of the raw OCR text has score
\* 1.0 and match type exact.
C7_ExactForEqualNormalForms ==
    ret.op = "BookMatcher.match_books" =>
        \A i \in 1..Len(ret.result) :
            (\E q \in {ret.denoised_text, ret.ocr_text} :
                normalize_text(q) = normalize_text(ret.result[i].book.title))
            => ret.result[i].score = ScoreOne /\ ret.result[i].match_type = "exact"

\* C7, amended: a candidate that BookMatcher.match_books returns, whose title
\* is not empty and, lower-cased and stripped of surrounding whitespace, equals
\* the lower-cased, stripped denoised or raw OCR text, has score 1.0 and match
\* type exact, whatever the other candidates are.
C7_ExactForEqualLoweredTexts ==
    ret.op = "BookMatcher.match_books" =>
        \A i \in 1..Len(ret.result) :
            (/\ ret.result[i].book.title # <<>>
             /\ \E q \in {ret.denoised_text, ret.ocr_text} :
                   Strip(Lower(q)) = Strip(Lower(ret.result[i].book.title)))
            => ret.result[i].score = ScoreOne /\ ret.result[i].match_type = "exact"

\* C7 happens: the list holds a candidate whose title differs from the denoised
\* text in case and surrounding whitespace only, scored 1.0, next to a
\* candidate scored lower.
C7_ExactAmongOthers ==
    /\ ret.op = "BookMatcher.match_books"
    /\ Len(ret.result) >= 2
    /\ ret.result[1].book.title # ret.denoised_text
    /\ Strip(Lower(ret.denoised_text)) = Strip(Lower(ret.result[1].book.title))
    /\ ret.result[1].score = ScoreOne
    /\ ret.result[2].score < ScoreOne

\* C8: a match_books call that follows a match_books call with the same query
\* and top_k on the same instance returns the same list, and a match_books call
\* leaves corpus_meta, vectorizer, token_idf and is_fitted unchanged.
C8_RepeatedCallsAgree ==
    [][/\ (/\ ret.op = "match_books" /\ ret'.op = "match_books"
           /\ ret'.ocr_text = ret.ocr_text /\ ret'.top_k = ret.top_k)
          => /\ ret'.outcome = ret.outcome
             /\ ret'.error = ret.error
             /\ ret'.result = ret.result
       /\ ret'.op = "match_books" => UNCHANGED adv_vars]_vars

\* C8 happens: a call returned a list of two or more entries, and the same call
\* made again in this state returns that list.
C8_RepeatableRanking ==
    /\ ret.op = "match_books" /\ ret.outcome = "return"
    /\ Len(ret.result) >= 2
    /\ match_books(Matcher, ret.ocr_text, ret.top_k, ret.confidence_threshold).result
         = ret.result

C10_TiesInCatalogOrder ==
    ReturnedRanking =>
        \A i, j \in 1..Len(ret.result) :
            i < j /\ ret.result[i].score = ret.result[j].score =>
                CatalogPosition(ret.result[i].book) < CatalogPosition(ret.result[j].book)

\* C10 happens: the legacy matcher returned two strategy-scored entries with
\* equal scores.
C10_TiedEntries ==
    /\ ret.op = "BookMatcher.match_books"
    /\ Len(ret.result) >= 2
    /\ ret.result[1].score = ret.result[2].score
    /\ ret.result[1].score > 0 /\ ret.result[1].score < ScoreOne
    /\ ret.result[1].book # ret.result[2].book

(***************************************************************************)
(* Properties of the handlers sharing the matcher                           *)
(***************************************************************************)
\* C11: whenever a handler has match_books to call, the fields the call
\* reads, corpus_meta, vectorizer and token_idf, are the ones that one
\* completed fit call produced, never a mixture of two calls.
C11_MatchReadsOneFit ==
    \A f \in Flows :
        flow[f].pc = "match_books" =>
            \E c \in Catalogs :
                /\ ~FitTable[c].char_raises /\ ~FitTable[c].token_raises
                /\ corpus_meta = build_corpus(c)
                /\ vectorizer = [state |-> "fitted", vocab |-> FitTable[c].vocab]
                /\ token_idf = FitTable[c].token_idf

C13_FitReplacesState ==
    ret.op = "fit" /\ ret.outcome = "return" =>
        /\ Len(corpus_meta) = Len(ret.catalog)
        /\ \A i \in 1..Len(ret.catalog) :
              /\ corpus_meta[i].original_book = ret.catalog[i]
              /\ corpus_meta[i] = MetaEntry(ret.catalog[i])
        /\ LET corpus == [i \in 1..Len(ret.catalog) |-> MetaEntry(ret.catalog[i]).norm]
           IN  /\ token_idf = TokenIdfOf(corpus)
               /\ vectorizer.state = "fitted"
               /\ vectorizer.vocab =
                     PrunedVocabulary([i \in 1..Len(corpus) |-> CharNgrams(corpus[i])])
               /\ corpus_matrix = corpus

\* C13 happens: a fit call with the three records d, c, a returned, and the
\* token SOL, which two records of another catalog share, has no IDF.
C13_RefittedCatalog ==
    /\ ret.op = "fit" /\ ret.outcome = "return"
    /\ ret.catalog = <<BookD, BookC, BookA>>
    /\ Len(corpus_meta) = 3
    /\ <<"S", "O", "L">> \notin DOMAIN token_idf
    /\ <<"T", "H", "E">> \in DOMAIN token_idf

\* C14: once fit has been called with the empty catalog on an
\* AdvancedBookMatcher (corpus_meta is empty and fit has gone past its first
\* statement), every later match_books call returns the empty list and raises
\* nothing; and BookMatcher.match_books called with an empty catalog returns
\* the empty list.
C14_EmptyCatalogReturnsEmpty ==
    /\ ret.op = "match_books" /\ corpus_meta = <<>> /\ vectorizer.state # "none" =>
          ret.outcome = "return" /\ ret.result = <<>>
    /\ ret.op = "BookMatcher.match_books" /\ ret.catalog = <<>> =>
          ret.outcome = "return" /\ ret.result = <<>>

\* C15: a fit call with a non-empty catalog completes without raising and
\* leaves the instance fitted, also for a catalog of one record and for a
\* catalog in which no word or character n-gram occurs in two records.
C15_FitCompletesForNonEmpty ==
    ret.op = "fit" /\ ret.catalog # <<>> /\ fit_pc = "idle" =>
        ret.outcome = "return" /\ is_fitted

(***************************************************************************)
(* Properties of failures inside a match call                               *)
(***************************************************************************)
\* C16: no exception raised while a candidate is scored leaves match_books:
\* a match_books call of the legacy matcher, and one of the advanced matcher
\* on an instance marked fitted, returns a list.
C16_ScoringNeverRaises ==
    /\ ret.op = "match_books" /\ is_fitted => ret.outcome = "return"
    /\ ret.op = "BookMatcher.match_books" => ret.outcome = "return"

(***************************************************************************)
(* Properties of the fitted entries                                         *)
(***************************************************************************)
\* C17: a record whose author_name is missing, an empty list or null is
\* fitted as if its author were the empty string: the normalized text of its
\* entry is the normalized title alone, author_norm and author_last are
\* empty, and the author-last-name feature is 0 for every query.
C17_AuthorlessAsEmpty ==
    \A i \in 1..Len(corpus_meta) :
        LET book == corpus_meta[i].original_book
        IN  \/ book.author_kind \in {"missing", "none"}
            \/ book.author_kind = "list" /\ book.authors = <<>>
            => /\ corpus_meta[i].norm = normalize_text(book.title)
               /\ corpus_meta[i].author_norm = <<>>
               /\ corpus_meta[i].author_last = <<>>
               /\ \A q \in Queries :
                     AuthorLastnameSim(extract_tokens(normalize_text(q)),
                                       corpus_meta[i].author_last) = 0

(***************************************************************************)
(* Properties of the legacy strategies                                      *)
(***************************************************************************)
\* C18: when the embedding model of the legacy matcher is unavailable (not
\* loaded, semantic matching disabled, or encoding raises), match_books still
\* returns a ranking, every semantic score it records is 0, and the score of
\* every candidate the strategies scored is the one the other strategies
\* give with a semantic contribution of exactly 0.
C18_SemanticUnavailableContributesZero ==
    /\ ret.op = "BookMatcher.match_books"
    /\ ~use_semantic_matching \/ semantic_model.kind = "none" \/ semantic_model.raises
    => /\ ret.outcome = "return"
       /\ \A i \in 1..Len(ret.result) :
             LET entry == ret.result[i]
                 search_texts == SearchTextsTable[<<ret.ocr_text, ret.denoised_text>>]
             IN  "reason" \notin DOMAIN entry.metadata =>
                    /\ \A k \in 1..Len(entry.metadata.semantic_scores) :
                          entry.metadata.semantic_scores[k] = 0
                    /\ entry.score =
                          ScoreWith(entry.book, search_texts,
                                    StrategyTable[<<search_texts, entry.book>>],
                                    <<>>).score

\* C18 happens: a matcher whose loaded model raises on encoding returned a
\* candidate with a positive score and a semantic score of 0 per search text.
C18_EncodingRaised ==
    /\ ret.op = "BookMatcher.match_books" /\ ret.outcome = "return"
    /\ use_semantic_matching /\ semantic_model.kind = "loaded" /\ semantic_model.raises
    /\ \E i \in 1..Len(ret.result) :
          /\ "reason" \notin DOMAIN ret.result[i].metadata
          /\ ret.result[i].score > 0
          /\ Len(ret.result[i].metadata.semantic_scores) >= 2

\* C20: in a list of the legacy matcher an entry has the score 1.0 only if the
\* exact-title check took its record, and every entry that the strategies
\* scored has a score of at most 0.95.
C20_OnlyExactScoresOne ==
    ret.op = "BookMatcher.match_books" =>
        \A i \in 1..Len(ret.result) :
            LET entry == ret.result[i]
                search_texts == SearchTextsTable[<<ret.ocr_text, ret.denoised_text>>]
            IN  /\ entry.score = ScoreOne =>
                      /\ entry.metadata = [reason |-> "exact_title_match"]
                      /\ _check_exact_title_match(search_texts, entry.book)
                /\ "reason" \notin DOMAIN entry.metadata => entry.score <= 9500000

\* C20 happens: the strategies gave a record more than 0.95 and the list
\* holds it with the score 0.95.
C20_CappedEntry ==
    /\ ret.op = "BookMatcher.match_books"
    /\ \E i \in 1..Len(ret.result) :
          /\ "reason" \notin DOMAIN ret.result[i].metadata
          /\ ret.result[i].score = 9500000
          /\ ~_check_exact_title_match(SearchTextsTable[<<ret.ocr_text, ret.denoised_text>>],
                                       ret.result[i].book)

(***************************************************************************)
(* Properties of normalize_text                                             *)
(***************************************************************************)
\* C19: normalize_text applied to its own output returns that output; the
\* output holds only A-Z, 0-9 and single spaces between other characters;
\* and it is empty for an empty and for a whitespace-only input.
C19_NormalizeIdempotent ==
    ret.op = "normalize_text" /\ ret.outcome = "return" =>
        LET out == ret.result
        IN  /\ normalize_text(out) = out
            /\ \A i \in 1..Len(out) :
                  /\ out[i] \in Range(UpperAZ) \cup Range(Digit09) \cup {" "}
                  /\ out[i] = " " => /\ i > 1 /\ i < Len(out)
                                     /\ out[i + 1] # " "
            /\ (\A i \in 1..Len(ret.ocr_text) : IsSpace(ret.ocr_text[i])) => out = <<>>

\* C19 happens: the text "a&é" was normalized to "A AND E".
C19_AmpersandAndAccent ==
    /\ ret.op = "normalize_text" /\ ret.outcome = "return"
    /\ ret.ocr_text = <<"a", "&", "e_acute">>
    /\ ret.result = <<"A", " ", "A", "N", "D", " ", "E">>

(***************************************************************************)
(* Properties of the query variants                                         *)
(***************************************************************************)
\* C21: the variants list that match_books builds from the normalized query
\* has no duplicates and starts with the normalized query unchanged; every
\* other element is the query with all occurrences of one key of
\* OCR_CONFUSIONS replaced by one of that key's confusable characters; there
\* is one element per pair of a key present in the query and one of its
\* confusables, and the elements stand in the order of these pairs in the table.
C21_OneVariantPerConfusion ==
    ret.op = "match_books" /\ ret.outcome = "return" /\ Strip(ret.ocr_text) # <<>> =>
        LET text == normalize_text(ret.ocr_text)
            variants == generate_confusion_variants(text)
            pairs == {<<i, j>> \in (1..Len(OCR_CONFUSIONS)) \X (1..2) :
                        /\ j <= Len(OCR_CONFUSIONS[i][2])
                        /\ OCR_CONFUSIONS[i][1] \in Range(text)}
            Variant(p) == ReplaceChar(text, OCR_CONFUSIONS[p[1]][1],
                                      <<OCR_CONFUSIONS[p[1]][2][p[2]]>>)
            Before(p, q) == p[1] < q[1] \/ (p[1] = q[1] /\ p[2] < q[2])
        IN  /\ variants[1] = text
            /\ \A a, b \in 1..Len(variants) : a # b => variants[a] # variants[b]
            /\ Len(variants) = 1 + Cardinality(pairs)
            /\ \A p \in pairs : \E a \in 2..Len(variants) : variants[a] = Variant(p)
            /\ \A a, b \in 2..Len(variants) :
                  a < b => \E p, q \in pairs :
                              /\ variants[a] = Variant(p) /\ variants[b] = Variant(q)
                              /\ Before(p, q)

\* C21 happens: match_books ranked with the variants of "THE 5OL", among them
\* "THE SOL" and "THE 50L" but not "THE S0L".
C21_VariantsOfQuery ==
    /\ ret.op = "match_books" /\ ret.outcome = "return"
    /\ ret.result # <<>>
    /\ ret.result[1].metadata.ocr_normalized = <<"T", "H", "E", " ", "5", "O", "L">>
    /\ LET variants == generate_confusion_variants(ret.result[1].metadata.ocr_normalized)
       IN  /\ <<"T", "H", "E", " ", "S", "O", "L">> \in Range(variants)
           /\ <<"T", "H", "E", " ", "5", "0", "L">> \in Range(variants)
           /\ <<"T", "H", "E", " ", "S", "0", "L">> \notin Range(variants)
           /\ Len(variants) = 5

(***************************************************************************)
(* Properties of the advanced features                                      *)
(***************************************************************************)
RECURSIVE GreedyCredit(_, _, _, _, _)
\* the weight credited from query token i on when the query tokens are taken
\* in order and each is paired with the candidate token most similar to it
\* among those not in used (the first of equals), a pair counting from a
\* similarity of 0.88 on and its candidate token joining used
GreedyCredit(idf, query_tokens, candidate_tokens, i, used) ==
    IF i > Len(query_tokens) THEN 0
    ELSE LET free == {j \in 1..Len(candidate_tokens) : candidate_tokens[j] \notin used}
             Sim(j) == JaroWinklerTable[<<query_tokens[i], candidate_tokens[j]>>]
             best == IF free = {} THEN 0
                     ELSE CHOOSE j \in free :
                             \A k \in free : Sim(j) > Sim(k) \/ (Sim(j) = Sim(k) /\ j <= k)
             credited == best # 0 /\ Sim(best) >= 880
         IN  (IF credited THEN IdfGet(idf, query_tokens[i], 1000) ELSE 0)
             + GreedyCredit(idf, query_tokens, candidate_tokens, i + 1,
                            IF credited THEN used \cup {candidate_tokens[best]} ELSE used)

\* C22: the soft_tfidf_overlap value of every returned entry lies in [0, 1]
\* and is, for one of the query variants, the weight credited by pairing the
\* query tokens in order, each with the most similar candidate token not yet
\* used, from a similarity of 0.88 on and starting with no token used, divided
\* by the total weight of the query tokens; it is 0 when a token list is empty.
C22_GreedyCreditWithoutReuse ==
    ret.op = "match_books" /\ ret.outcome = "return" =>
        \A r \in 1..Len(ret.result) :
            LET value == ret.result[r].metadata.features.soft_tfidf_overlap
                candidate_tokens == extract_tokens(ret.result[r].metadata.candidate_normalized)
                variants == VariantsTable[ret.ocr_text]
                Total(q) == SumFn([i \in 1..Len(q) |-> IdfGet(token_idf, q[i], 1000)])
                Expected(q) == IF q = <<>> \/ candidate_tokens = <<>> \/ Total(q) = 0 THEN 0
                               ELSE (1000 * GreedyCredit(token_idf, q, candidate_tokens, 1, {}))
                                       \div Total(q)
            IN  /\ value >= 0 /\ value <= 1000
                /\ \E v \in 1..Len(variants) : value = Expected(extract_tokens(variants[v]))

\* C22 happens: the query "Sol & Sol" was matched against the record a, whose
\* one token SOL is credited to the first SOL of the query and not again to
\* the second, so that less than the weight of the two SOL is credited.
C22_SecondTokenNotCredited ==
    /\ ret.op = "match_books" /\ ret.outcome = "return"
    /\ ret.ocr_text = <<"S", "o", "l", " ", "&", " ", "S", "o", "l">>
    /\ \E r \in 1..Len(ret.result) :
          /\ ret.result[r].book = BookA
          /\ ret.result[r].metadata.features.soft_tfidf_overlap > 0
          /\ ret.result[r].metadata.features.soft_tfidf_overlap
                < (1000 * 2 * IdfGet(token_idf, <<"S", "O", "L">>, 1000))
                     \div (2 * IdfGet(token_idf, <<"S", "O", "L">>, 1000)
                           + IdfGet(token_idf, <<"A", "N", "D">>, 1000))

\* C23: on a fitted instance every token that soft_tfidf_overlap looks up for
\* a query is weighted as follows: a token of STOP_LOW with one tenth of its
\* weight (its IDF in the fitted corpus, or the default 1.0 when it is not in
\* the fitted vocabulary), every other token with its full weight.
C23_StopTokensDownweighted ==
    ret.op = "match_books" /\ ret.outcome = "return" /\ Strip(ret.ocr_text) # <<>> =>
        \E c \in Catalogs :
            /\ ~FitTable[c].token_raises
            /\ FitTable[c].token_idf = token_idf
            /\ LET corpus == FitTable[c].corpus
                   termSets == [i \in 1..Len(corpus) |-> Range(WordTokens(corpus[i]))]
                   Full(t) == IF t \in DOMAIN token_idf
                              THEN SmoothIdf(Len(corpus), DocFreq(Lower(t), termSets))
                              ELSE 1000
                   variants == VariantsTable[ret.ocr_text]
               IN  \A v \in 1..Len(variants) :
                       \A t \in Range(extract_tokens(variants[v])) :
                           IdfGet(token_idf, t, 1000) =
                               IF t \in STOP_LOW THEN Full(t) \div 10 ELSE Full(t)

\* C24: the value of each strategy that enters the score of a returned entry
\* and is reported with it is the maximum of that strategy's values over all
\* query variants: for the advanced matcher each of the five reported
\* features, for the legacy matcher the best value of each strategy's list.
C24_MaximumPerStrategy ==
    /\ ret.op = "match_books" /\ ret.outcome = "return" =>
          \A r \in 1..Len(ret.result) :
              LET entry == ret.result[r]
                  variants == VariantsTable[ret.ocr_text]
                  features_of == MatchFeaturesTable[<<use_character_ngrams, vectorizer,
                                                      token_idf>>]
                  candidate_meta == MetaTable[entry.book]
                  Highest(name) ==
                      MaxOf([v \in 1..Len(variants) |->
                                features_of[<<variants[v], candidate_meta>>][name]])
              IN  /\ \A name \in DOMAIN entry.metadata.features :
                        entry.metadata.features[name] = Highest(name)
                  /\ entry.score =
                        combine_features([name \in DOMAIN entry.metadata.features |->
                                             Highest(name)])
    /\ ret.op = "BookMatcher.match_books" =>
          \A r \in 1..Len(ret.result) :
              LET entry == ret.result[r]
                  search_texts == SearchTextsTable[<<ret.ocr_text, ret.denoised_text>>]
                  st == StrategyTable[<<search_texts, entry.book>>]
              IN  "reason" \notin DOMAIN entry.metadata =>
                     entry.score =
                        PenalizeAndCap(
                           100 * (  40 * BestOf(st.token_scores) + 25 * BestOf(st.char_scores)
                                  + 20 * BestOf(st.fuzzy_scores)
                                  + 15 * BestOf(st.word_order_scores)
                                  + 15 * BestOf(entry.metadata.semantic_scores)
                                  + 10 * BestOf(st.tfidf_scores)
                                  + 20 * BestOf(st.field_scores)),
                           BestOf(st.token_scores), BestOf(st.char_scores),
                           Len(Split(search_texts[1])), Len(Split(entry.book.title)))

\* C25: every strategy value computed for a query variant and a returned
\* candidate lies in [0, 1] (0..1000 thousandths): the five features of the
\* advanced matcher for every variant of the query, and the character, fuzzy,
\* token, word-order, semantic, TF-IDF and field-weighted values of the legacy
\* matcher for every search text, whatever the number of authors of the record.
C25_StrategyValuesInUnitInterval ==
    /\ ret.op = "match_books" /\ ret.outcome = "return" =>
          \A r \in 1..Len(ret.result) :
              LET variants == VariantsTable[ret.ocr_text]
                  features_of == MatchFeaturesTable[<<use_character_ngrams, vectorizer,
                                                      token_idf>>]
                  candidate_meta == MetaTable[ret.result[r].book]
              IN  \A v \in 1..Len(variants) :
                      \A name \in DOMAIN features_of[<<variants[v], candidate_meta>>] :
                          features_of[<<variants[v], candidate_meta>>][name] \in 0..1000
    /\ ret.op = "BookMatcher.match_books" =>
          \A r \in 1..Len(ret.result) :
              LET entry == ret.result[r]
                  search_texts == SearchTextsTable[<<ret.ocr_text, ret.denoised_text>>]
                  st == StrategyTable[<<search_texts, entry.book>>]
              IN  "reason" \notin DOMAIN entry.metadata =>
                     /\ \A name \in DOMAIN st :
                            \A i \in 1..Len(st[name]) : st[name][i] \in 0..1000
                     /\ \A i \in 1..Len(entry.metadata.semantic_scores) :
                            entry.metadata.semantic_scores[i] \in 0..1000

\* C26: after a fit call that raised, the fitted state (corpus_meta, vectorizer,
\* corpus_matrix, token_idf, is_fitted) is what it was before the call; as fit
\* is the only method that writes it, it is then the state of the constructor
\* or the state that a fit call which returned has produced from its catalog.
C26_FailedFitLeavesState ==
    ret.op = "fit" /\ ret.outcome = "raise" =>
        \/ /\ corpus_meta = <<>> /\ vectorizer = NoVectorizer /\ corpus_matrix = <<>>
           /\ token_idf = <<>> /\ ~is_fitted
        \/ \E c \in Catalogs :
              /\ ~FitTable[c].char_raises /\ ~FitTable[c].token_raises
              /\ corpus_meta = build_corpus(c)
              /\ vectorizer = [state |-> "fitted", vocab |-> FitTable[c].vocab]
              /\ corpus_matrix = FitTable[c].corpus
              /\ token_idf = FitTable[c].token_idf
              /\ is_fitted

\* C27: every entry that AdvancedBookMatcher.match_books returns has a score
\* above 0; a fitted candidate whose combined score is 0 for every variant of
\* the query has no entry, however few entries are returned; and no record of
\* the catalog has two entries.
C27_OnlyPositiveScoresReturned ==
    ret.op = "match_books" /\ ret.outcome = "return" =>
        /\ \A r \in 1..Len(ret.result) : ret.result[r].score > 0
        /\ \A r1, r2 \in 1..Len(ret.result) :
              ret.result[r1].book = ret.result[r2].book => r1 = r2
        /\ Strip(ret.ocr_text) # <<>> =>
              \A i \in 1..Len(corpus_meta) :
                  LET variants == VariantsTable[ret.ocr_text]
                      features_of == MatchFeaturesTable[<<use_character_ngrams, vectorizer,
                                                          token_idf>>]
                  IN  (\A v \in 1..Len(variants) :
                          combine_features(features_of[<<variants[v], corpus_meta[i]>>]) = 0)
                      => \A r \in 1..Len(ret.result) :
                             ret.result[r].book # corpus_meta[i].original_book

\* C27 happens: a call with top_k = 2 on three fitted records returned one
\* entry only, because the two other candidates scored 0.
C27_ZeroScoredLeftOut ==
    /\ ret.op = "match_books" /\ ret.outcome = "return"
    /\ ret.top_k = 2 /\ Len(ret.result) = 1 /\ Len(corpus_meta) = 3
    /\ ret.result[1].score > 0
    /\ \E i \in 1..Len(corpus_meta) :
          /\ corpus_meta[i].original_book # ret.result[1].book
          /\ \A v \in 1..Len(VariantsTable[ret.ocr_text]) :
                combine_features(
                    MatchFeaturesTable[<<use_character_ngrams, vectorizer, token_idf>>]
                        [<<VariantsTable[ret.ocr_text][v], corpus_meta[i]>>]) = 0

(***************************************************************************)
(* Properties of the fitted entries                                         *)
(***************************************************************************)
\* C28: for every entry of corpus_meta whose author is not empty, author_last
\* is the last token of author_norm, the normalized upper-case author text.
C28_AuthorLastNormalized ==
    \A i \in 1..Len(corpus_meta) :
        corpus_meta[i].author_norm # <<>> =>
            LET author_tokens == Split(corpus_meta[i].author_norm)
            IN  corpus_meta[i].author_last = author_tokens[Len(author_tokens)]

(***************************************************************************)
(* Properties of the legacy strategies                                      *)
(***************************************************************************)
\* C29: the character score that a legacy entry records for a search text is
\* 1.0 when the normalized search text and the normalized candidate text are
\* the same non-empty string, and of two pairs with the same lengths the one
\* with the higher fuzz.ratio has no lower character score.
C29_CharacterScoreFollowsRatio ==
    ret.op = "BookMatcher.match_books" =>
        LET search_texts == SearchTextsTable[<<ret.ocr_text, ret.denoised_text>>]
            scored == {r \in 1..Len(ret.result) :
                          "reason" \notin DOMAIN ret.result[r].metadata}
            search_norm(i) == _normalize_text(search_texts[i])
            book_norm(r) == _normalize_text(_extract_book_text(ret.result[r].book))
        IN  /\ \A r \in scored : \A i \in 1..Len(search_texts) :
                  search_norm(i) # <<>> /\ search_norm(i) = book_norm(r) =>
                      ret.result[r].metadata.char_scores[i] = 1000
            /\ \A r1, r2 \in scored : \A i, j \in 1..Len(search_texts) :
                  /\ Len(search_norm(i)) = Len(search_norm(j))
                  /\ Len(book_norm(r1)) = Len(book_norm(r2))
                  /\ search_norm(i) # <<>> /\ search_norm(j) # <<>>
                  /\ book_norm(r1) # <<>> /\ book_norm(r2) # <<>>
                  /\ fuzz_ratio(search_norm(i), book_norm(r1))
                        >= fuzz_ratio(search_norm(j), book_norm(r2))
                  => ret.result[r1].metadata.char_scores[i]
                        >= ret.result[r2].metadata.char_scores[j]

====
